---- MODULE Spec2Model ----
(***************************************************************************)
(* Endpoint health registry, connectivity sweep and endpoint selection of  *)
(* network/connectivity.py.                                                *)
(*                                                                         *)
(* Time is counted in whole seconds (time.time()).  An EndpointStatus      *)
(* keeps name, kind, target and reachable; latency_ms, error and timestamp *)
(* are not modelled.  The field "sweep" is a history field: the number of  *)
(* the check_injective_connectivity execution that built the status.  The  *)
(* module global _BEST_ENDPOINTS is written and never read, it is left out.*)
(*                                                                         *)
(* Nine specifications share the state: Spec (concurrent callers on one    *)
(* environment), SpecSeq (one caller, both environments), SpecRegistry     *)
(* (the registry's methods called directly), SpecSel (one caller of        *)
(* refresh_endpoints, get_smart_endpoint, the catalog and the validation   *)
(* with its except branch), SpecProbe (_check_http and _check_tcp followed *)
(* await by await against a clock), SpecLive (the calls of SpecSel under   *)
(* fairness of the probes), SpecCut (concurrent sweeps, validations and    *)
(* refreshes of one environment), SpecConn (the /network/connectivity      *)
(* handler of agent_server.py against a clock) and SpecBest                *)
(* (get_best_available_endpoint of indexer_requests.py with the calls it   *)
(* makes).                                                                 *)
(*                                                                         *)
(* The registry's methods are steps of their own, as on one event loop.    *)
(* The helper thread that check_injective_connectivity_sync leaves behind  *)
(* after its join timed out runs beside the caller's thread without a      *)
(* lock: the two statements of its set_results are two steps.              *)
(***************************************************************************)
EXTENDS Integers, FiniteSets, Sequences, TLC

\* ------------------------------------------------------------------ bounds
NumProcs == 2
MaxCalls == 2
MaxSeqCalls == 3
MaxTicks == 1
MaxRegistryTicks == 3
MaxSelCalls == 2
MaxProbeCalls == 2
MaxLiveCalls == 2
MaxCutCalls == 2
MaxConnCalls == 2
MaxConnTicks == 3
MaxBestCalls == 4
\* the timeout handed to the probes, in clock steps
ProbeTimeout == 2

Procs == 1..NumProcs

\* ------------------------------------------------------- program constants
check_interval == 300
max_cache_age == 1800

Environments == {"testnet", "mainnet"}
EndpointTypes == {"lcd", "grpc", "tendermint_rpc"}

\* clock steps of the registry specification: they reach the ages 299, 300,
\* 1800 and 1801 within MaxRegistryTicks
TickSet == {1, check_interval - 1, max_cache_age - check_interval + 1}
\* clock steps of the one-caller specification: an entry reaches the age
\* max_cache_age (soft-stale, still valid) or expires
LongTickSet == {max_cache_age, max_cache_age + 1}
\* clock step of the concurrent specification: every stored entry expires
ExpiryTickSet == {max_cache_age + 1}

EmptyMap == [k \in {} |-> k]

\* dict assignment d[k] = v and `del d[k]`
Put(d, k, v) == [x \in (DOMAIN d) \cup {k} |-> IF x = k THEN v ELSE d[x]]
Del(d, k) == [x \in (DOMAIN d) \ {k} |-> d[x]]

\* ---------------------------------------------------------------- catalog
lower(s) ==
    CASE s = "Testnet" -> "testnet"
      [] s = "TESTNET" -> "testnet"
      [] s = "Mainnet" -> "mainnet"
      [] OTHER -> s

build_injective_endpoints(environment) ==
    LET env == lower(IF environment = "" THEN "testnet" ELSE environment)
    IN  IF env = "testnet"
        THEN [lcd  |-> [kind |-> "http", target |-> "https://testnet.lcd.injective.network"],
              grpc |-> [kind |-> "tcp",  target |-> "testnet.grpc.injective.network:443"]]
        ELSE [lcd  |-> [kind |-> "http", target |-> "https://lcd.injective.network"],
              grpc |-> [kind |-> "tcp",  target |-> "grpc.injective.network:443"]]

get_default_endpoints(environment) ==
    IF lower(environment) = "testnet"
    THEN [lcd  |-> "https://testnet.lcd.injective.network",
          grpc |-> "testnet.grpc.injective.network:9900"]
    ELSE [lcd  |-> "https://lcd.injective.network",
          grpc |-> "grpc.injective.network:9900"]

\* ----------------------------------------------------------------- probes
\* what _check_http / _check_tcp hand back: (ok, latency, error)
ProbeResults ==
    { [ok |-> TRUE,  error |-> "None"],
      [ok |-> FALSE, error |-> "Timeout"],
      [ok |-> FALSE, error |-> "Connection error"] }

\* the direct probe step of validate_endpoint_availability raised instead of
\* returning (line 438 with an address _parse_host_port cannot take, say)
Raised == [ok |-> FALSE, error |-> "raised"]

\* outcomes of the direct probe step
DirectResults == ProbeResults \cup {Raised}

\* the EndpointStatus run_check builds from one probe result
run_check(name, desc, r, s) ==
    [name |-> name, kind |-> desc.kind, target |-> desc.target,
     reachable |-> r.ok, sweep |-> s]

\* EndpointStatus.to_dict: the dataclass fields as a dict
to_dict(st) ==
    [name |-> st.name, kind |-> st.kind, target |-> st.target,
     reachable |-> st.reachable]

\* --------------------------------------------------------------- registry
\* reg = [results |-> _results, last_check_time |-> _last_check_time]
NewRegistry == [results |-> EmptyMap, last_check_time |-> EmptyMap]

\* the new statuses are merged into the stored map
set_results_merge(reg, env, res, t) ==
    LET old == IF env \in DOMAIN reg.results THEN reg.results[env] ELSE EmptyMap
        merged == [n \in (DOMAIN old) \cup (DOMAIN res) |->
                      IF n \in DOMAIN res THEN res[n] ELSE old[n]]
    IN  [results |-> Put(reg.results, env, merged),
         last_check_time |-> Put(reg.last_check_time, env, t)]

\* the time stamp of an entry already stored is left as it was
set_results_nostamp(reg, env, res, t) ==
    [results |-> Put(reg.results, env, res),
     last_check_time |-> IF env \in DOMAIN reg.last_check_time
                         THEN reg.last_check_time
                         ELSE Put(reg.last_check_time, env, t)]

\* an entry already stored is kept: the first writer wins
set_results_first(reg, env, res, t) ==
    IF env \in DOMAIN reg.results
    THEN reg
    ELSE [results |-> Put(reg.results, env, res),
          last_check_time |-> Put(reg.last_check_time, env, t)]

\* the maps are rebuilt with the one environment in them
set_results_only(reg, env, res, t) ==
    [results |-> Put(EmptyMap, env, res),
     last_check_time |-> Put(EmptyMap, env, t)]

set_results(reg, env, res, t) ==
    [results |-> Put(reg.results, env, res),
     last_check_time |-> Put(reg.last_check_time, env, t)]

\* the entry is left in place
clear_environment_cache_keep(reg, env) == reg

\* only _results is cleaned, the time stamp stays
clear_environment_cache_results(reg, env) ==
    [results |-> Del(reg.results, env), last_check_time |-> reg.last_check_time]

clear_environment_cache(reg, env) ==
    [results |-> Del(reg.results, env),
     last_check_time |-> Del(reg.last_check_time, env)]

clear_cache(reg) == [results |-> EmptyMap, last_check_time |-> EmptyMap]

\* the age check on read is missing
Expired_never(reg, env, t) == FALSE

\* cache_age > self._max_cache_age
Expired(reg, env, t) == t - reg.last_check_time[env] > max_cache_age

\* the entry is handed out and removed, as with dict.pop
get_results_pop(reg, env, t) ==
    IF env \notin DOMAIN reg.results
    THEN [reg |-> reg, value |-> EmptyMap]
    ELSE [reg |-> clear_environment_cache(reg, env),
          value |-> IF env \in DOMAIN reg.last_check_time /\ Expired(reg, env, t)
                    THEN EmptyMap ELSE reg.results[env]]

\* get_results: the registry it leaves and the value it returns
get_results(reg, env, t) ==
    IF env \notin DOMAIN reg.results
    THEN [reg |-> reg, value |-> EmptyMap]
    ELSE IF env \in DOMAIN reg.last_check_time /\ Expired(reg, env, t)
         THEN [reg |-> clear_environment_cache(reg, env), value |-> EmptyMap]
         ELSE [reg |-> reg, value |-> reg.results[env]]

\* the boundary age counts as invalid
is_cache_valid_strict(reg, env, t) ==
    IF env \notin DOMAIN reg.results \/ env \notin DOMAIN reg.last_check_time
    THEN FALSE
    ELSE t - reg.last_check_time[env] < max_cache_age

is_cache_valid(reg, env, t) ==
    IF env \notin DOMAIN reg.results \/ env \notin DOMAIN reg.last_check_time
    THEN FALSE
    ELSE t - reg.last_check_time[env] <= max_cache_age

\* the boundary age does not yet ask for a recheck
should_recheck_strict(reg, env, t) ==
    IF env \notin DOMAIN reg.last_check_time
    THEN TRUE
    ELSE t - reg.last_check_time[env] > check_interval

should_recheck(reg, env, t) ==
    IF env \notin DOMAIN reg.last_check_time
    THEN TRUE
    ELSE t - reg.last_check_time[env] >= check_interval

get_cache_info(reg, env, t) ==
    IF env \notin DOMAIN reg.last_check_time
    THEN [cached |-> FALSE, age |-> "None", valid |-> FALSE]
    ELSE [cached |-> TRUE, age |-> t - reg.last_check_time[env],
          valid |-> is_cache_valid(reg, env, t),
          should_recheck |-> should_recheck(reg, env, t)]

\* ------------------------------------------------------------------ state
VARIABLES
    scope,           \* the run's scenario: environments and callers in use, clock steps
    now,             \* time.time()
    ticks,           \* clock steps left
    registry,        \* ConnectivityRegistry.instance()
    pc,              \* per caller: "idle", "direct" (awaiting the direct probe), "probing" (awaiting gather), "storing" (inside set_results)
    op,              \* per caller: the running operation
    call,            \* per caller: the arguments of the running operation
    local,           \* per caller: the sweep's local dict `results`
    pending,         \* per caller: names of the probe tasks not yet finished
    sweep_id,        \* per caller: number of the sweep it runs
    nsweeps,         \* sweeps started so far
    ncalls,          \* operations the callers may still start
    written,         \* history: per environment the last set_results not yet invalidated
    last,            \* history: what the last step did and returned
    probes,          \* the probe coroutines of the call followed probe by probe
    cut,             \* history: per environment, the sweeps that were running when
                     \* validate or refresh cleared its entry
    coro             \* the frame of the get_best_available_endpoint coroutine

vars == <<scope, now, ticks, registry, pc, op, call, local, pending,
          sweep_id, nsweeps, ncalls, written, last, probes, cut, coro>>

procVars == <<pc, op, call, local, pending, sweep_id, nsweeps, ncalls>>

\* a step that returns nothing to a caller
Quiet == [kind |-> "step"]

\* get_best_available_endpoint is not running; validates and refreshes are
\* history: the validate_endpoint_availability calls and forced refreshes made
NoBest == [phase |-> "idle", env |-> "", type |-> "", url |-> "",
           validates |-> 0, refreshes |-> 0]

\* no probe coroutine is being followed
NoProbes == [mode |-> "none", start |-> 0, tasks |-> EmptyMap]

\* history kept with a get_best_endpoints call: the registry entry it found
NoEntry0 == [valid |-> FALSE, reach |-> FALSE, again |-> FALSE]

\* n0, force and found are history kept with a get_smart_endpoint call: the
\* sweeps started before it, its force_refresh argument, and whether the
\* sweep of its refresh had found a reachable endpoint when the refresh returned
\* held: the local variables a handler keeps across its await
NoCall == [env |-> "", type |-> "", entry0 |-> NoEntry0,
           n0 |-> 0, force |-> FALSE, found |-> FALSE, held |-> EmptyMap]

\* the state after import: an empty registry, no caller active
Fresh(sc, nt, nc) ==
    /\ scope = sc
    /\ now = 0
    /\ ticks = nt
    /\ registry = NewRegistry
    /\ pc = [p \in Procs |-> "idle"]
    /\ op = [p \in Procs |-> "none"]
    /\ call = [p \in Procs |-> NoCall]
    /\ local = [p \in Procs |-> EmptyMap]
    /\ pending = [p \in Procs |-> {}]
    /\ sweep_id = [p \in Procs |-> 0]
    /\ nsweeps = 0
    /\ ncalls = nc
    /\ written = EmptyMap
    /\ last = Quiet
    /\ probes = NoProbes
    /\ cut = EmptyMap
    /\ coro = NoBest

\* concurrent callers working on one environment
Init ==
    \E e \in Environments :
        Fresh([envs |-> {e}, callers |-> Procs, steps |-> ExpiryTickSet], MaxTicks, MaxCalls)

\* one caller, every environment
SeqInit ==
    Fresh([envs |-> Environments, callers |-> {1}, steps |-> LongTickSet], MaxTicks, MaxSeqCalls)

\* the registry driven directly through its methods
RegistryInit ==
    Fresh([envs |-> Environments, callers |-> {}, steps |-> TickSet], MaxRegistryTicks, 0)

\* one caller of the selection functions, working on one environment; "foo"
\* stands for the environment names the catalog does not know
SelInit ==
    \E e \in {"testnet", "foo"} :
        Fresh([envs |-> {e}, callers |-> {1}, steps |-> LongTickSet],
              MaxTicks, MaxSelCalls)

\* one caller of the selection functions and the validation, the clock
\* standing still
LiveInit ==
    Fresh([envs |-> {"testnet"}, callers |-> {1}, steps |-> {}], 0, MaxLiveCalls)

\* concurrent callers of the sweep, the validation and the refresh on one
\* environment, the clock standing still
CutInit ==
    Fresh([envs |-> {"testnet"}, callers |-> Procs, steps |-> {}], 0, MaxCutCalls)

\* requests to /network/connectivity for one environment, against the clock
ConnInit ==
    Fresh([envs |-> {"testnet"}, callers |-> Procs, steps |-> TickSet],
          MaxConnTicks, MaxConnCalls)

\* one get_best_available_endpoint coroutine at a time, the clock standing
\* still; a helper thread left behind takes a slot of its own
BestInit ==
    Fresh([envs |-> {"testnet"}, callers |-> Procs, steps |-> {}], 0, MaxBestCalls)

\* the probes of a sweep or one probe by itself, with the clock running
ProbeInit ==
    Fresh([envs |-> Environments, callers |-> {}, steps |-> {1}],
          2 * ProbeTimeout + 1, MaxProbeCalls)

\* ------------------------------------------------------------------ clock
\* time is counted in whole seconds: none passes between the two statements
\* of a set_results under way
Tick(d) ==
    /\ ticks > 0
    /\ \A p \in Procs : pc[p] # "storing"
    /\ now' = now + d
    /\ ticks' = ticks - 1
    /\ last' = Quiet
    /\ UNCHANGED <<scope, coro, probes, cut, registry, procVars, written>>

\* ------------------------------------------------- registry, called directly
Set(e, res) ==
    /\ registry' = set_results(registry, e, res, now)
    /\ written' = Put(written, e, [res |-> res, at |-> now])
    /\ last' = [kind |-> "set", env |-> e, value |-> res]
    /\ UNCHANGED <<scope, coro, probes, cut, now, ticks, procVars>>

Get(e) ==
    LET g == get_results(registry, e, now)
    IN  /\ registry' = g.reg
        /\ last' = [kind |-> "get", env |-> e, value |-> g.value]
        /\ UNCHANGED <<scope, coro, probes, cut, now, ticks, procVars, written>>

IsValid(e) ==
    /\ last' = [kind |-> "is_valid", env |-> e, value |-> is_cache_valid(registry, e, now)]
    /\ UNCHANGED <<scope, coro, probes, cut, now, ticks, registry, procVars, written>>

ShouldRecheck(e) ==
    /\ last' = [kind |-> "should_recheck", env |-> e, value |-> should_recheck(registry, e, now)]
    /\ UNCHANGED <<scope, coro, probes, cut, now, ticks, registry, procVars, written>>

CacheInfo(e) ==
    /\ last' = [kind |-> "cache_info", env |-> e, value |-> get_cache_info(registry, e, now)]
    /\ UNCHANGED <<scope, coro, probes, cut, now, ticks, registry, procVars, written>>

Invalidate(e) ==
    /\ registry' = clear_environment_cache(registry, e)
    /\ written' = Del(written, e)
    /\ last' = [kind |-> "invalidate", env |-> e,
                had |-> e \in (DOMAIN registry.results) \cup (DOMAIN registry.last_check_time)]
    /\ UNCHANGED <<scope, coro, probes, cut, now, ticks, procVars>>

InvalidateAll ==
    /\ registry' = clear_cache(registry)
    /\ written' = EmptyMap
    /\ last' = [kind |-> "invalidate_all"]
    /\ UNCHANGED <<scope, coro, probes, cut, now, ticks, procVars>>

\* ------------------------------------------- check_injective_connectivity
\* lines 206-228: look up the catalog, create one task per endpoint, await gather
StartSweep(p, o, c) ==
    /\ pc' = [pc EXCEPT ![p] = "probing"]
    /\ op' = [op EXCEPT ![p] = o]
    /\ call' = [call EXCEPT ![p] = c]
    /\ local' = [local EXCEPT ![p] = EmptyMap]
    /\ pending' = [pending EXCEPT ![p] = DOMAIN build_injective_endpoints(c.env)]
    /\ sweep_id' = [sweep_id EXCEPT ![p] = nsweeps + 1]
    /\ nsweeps' = nsweeps + 1

\* the sweeps of environment e that await their probes
RunningSweeps(e) ==
    {sweep_id[q] : q \in {r \in Procs : pc[r] = "probing" /\ call[r].env = e}}

\* history: validate or refresh clears the entry of e while sweeps of e run
Cleared(e) ==
    IF RunningSweeps(e) = {} THEN cut
    ELSE Put(cut, e, RunningSweeps(e) \cup (IF e \in DOMAIN cut THEN cut[e] ELSE {}))

\* a new call takes the lowest free caller slot (the slots are interchangeable)
FreeSlot(p) ==
    /\ p \in scope.callers
    /\ pc[p] = "idle"
    /\ \A q \in scope.callers : q < p => pc[q] # "idle"

\* the caller's frame is gone
Finish(p) ==
    /\ pc' = [pc EXCEPT ![p] = "idle"]
    /\ op' = [op EXCEPT ![p] = "none"]
    /\ call' = [call EXCEPT ![p] = NoCall]
    /\ local' = [local EXCEPT ![p] = EmptyMap]
    /\ pending' = [pending EXCEPT ![p] = {}]
    /\ sweep_id' = [sweep_id EXCEPT ![p] = 0]

\* a failing probe's status is not recorded
store_status_drop(res, st) == IF st.reachable THEN Put(res, st.name, st) ELSE res

\* results[name] = EndpointStatus(...)
store_status(res, st) == Put(res, st.name, st)

\* gather never hands control back
gather_done_never(p) == FALSE

\* the sweep goes on without waiting for its probes
gather_done_early(p) == pc[p] = "probing"

\* asyncio.gather(*tasks) has returned
gather_done(p) == pc[p] = "probing" /\ pending[p] = {}

SweepCall(p, e) ==
    /\ FreeSlot(p)
    /\ ncalls > 0
    /\ ncalls' = ncalls - 1
    /\ StartSweep(p, "sweep", [NoCall EXCEPT !.env = e])
    /\ last' = Quiet
    /\ UNCHANGED <<scope, coro, probes, cut, now, ticks, registry, written>>

\* one run_check task finishes: its probe returned r
ProbeDone(p, n, r) ==
    /\ pc[p] = "probing"
    /\ n \in pending[p]
    /\ local' = [local EXCEPT ![p] =
           store_status(@, run_check(n, build_injective_endpoints(call[p].env)[n], r, sweep_id[p]))]
    /\ pending' = [pending EXCEPT ![p] = @ \ {n}]
    /\ last' = Quiet
    /\ UNCHANGED <<scope, coro, probes, cut, now, ticks, registry, pc, op, call, sweep_id,
                   nsweeps, ncalls, written>>

\* lines 230-232: set_results and return, the caller being the sweep itself
SweepReturn(p) ==
    /\ op[p] = "sweep"
    /\ gather_done(p)
    /\ registry' = set_results(registry, call[p].env, local[p], now)
    /\ written' = Put(written, call[p].env, [res |-> local[p], at |-> now])
    /\ last' = [kind |-> "sweep_ret", env |-> call[p].env, value |-> local[p],
                sweep |-> sweep_id[p]]
    /\ Finish(p)
    /\ UNCHANGED <<scope, coro, probes, cut, now, ticks, nsweeps, ncalls>>

\* --------------------------------------------------------- get_best_endpoints
\* the reachable flag is not looked at
available_endpoints_all(res) == [n \in DOMAIN res |-> res[n].target]

\* lines 306-309 and 323-326: {name: target} of the reachable endpoints
available_endpoints(res) ==
    [n \in {k \in DOMAIN res : res[k].reachable} |-> res[n].target]

\* the cached entry is never used
cache_usable_never(reg, env, cached, t) == FALSE

\* line 304: cached_results and registry.is_cache_valid(environment)
cache_usable(reg, env, cached, t) ==
    DOMAIN cached # {} /\ is_cache_valid(reg, env, t)

\* no fallback to the defaults
select_after_sweep_nofallback(env, res) ==
    available_endpoints([n \in DOMAIN res |-> to_dict(res[n])])

\* lines 321-343: the answer after a sweep that returned res
select_after_sweep(env, res) ==
    LET available == available_endpoints([n \in DOMAIN res |-> to_dict(res[n])])
    IN  IF DOMAIN available # {} THEN available ELSE get_default_endpoints(env)

\* nothing is handed back when the sweep failed
sweep_failed_answer_none(env) == EmptyMap

\* lines 334-343: the wrapper returned {"error": ...} or raised
sweep_failed_answer(env) == get_default_endpoints(env)

GBECall(p, e) ==
    LET g == get_results(registry, e, now)
        usable == cache_usable(g.reg, e, g.value, now)
        available == IF usable THEN available_endpoints(g.value) ELSE EmptyMap
        valid0 == /\ e \in DOMAIN registry.results
                  /\ e \in DOMAIN registry.last_check_time
                  /\ now - registry.last_check_time[e] <= max_cache_age
        reach0 == valid0 /\ \E n \in DOMAIN registry.results[e] :
                                registry.results[e][n].reachable
        entry0 == [valid |-> valid0, reach |-> reach0,
                   again |-> last.kind = "gbe_ret" /\ last.env = e /\ last.entry0.reach]
    IN  /\ FreeSlot(p)
        /\ ncalls > 0
        /\ ncalls' = ncalls - 1
        /\ registry' = g.reg
        /\ IF DOMAIN available # {}
           THEN /\ last' = [kind |-> "gbe_ret", env |-> e, value |-> available,
                            swept |-> FALSE, entry0 |-> entry0, error |-> FALSE,
                            sweep |-> EmptyMap]
                /\ UNCHANGED <<pc, op, call, local, pending, sweep_id, nsweeps>>
           ELSE /\ StartSweep(p, "gbe", [NoCall EXCEPT !.env = e, !.entry0 = entry0])
                /\ last' = Quiet
        /\ UNCHANGED <<scope, coro, probes, cut, now, ticks, written>>

\* the sweep run by check_injective_connectivity_sync completes in time
GBEReturn(p) ==
    LET e == call[p].env
        answer == select_after_sweep(e, local[p])
    IN  /\ op[p] = "gbe"
        /\ gather_done(p)
        /\ registry' = set_results(registry, e, local[p], now)
        /\ written' = Put(written, e, [res |-> local[p], at |-> now])
        /\ last' = [kind |-> "gbe_ret", env |-> e, value |-> answer,
                    swept |-> TRUE, entry0 |-> call[p].entry0, error |-> FALSE,
                    sweep |-> local[p]]
        /\ Finish(p)
        /\ UNCHANGED <<scope, coro, probes, cut, now, ticks, nsweeps, ncalls>>

\* lines 261-264: thread.join timed out, the wrapper returns {"error": ...};
\* the helper thread goes on running the sweep
GBETimeout(p) ==
    LET e == call[p].env
        answer == sweep_failed_answer(e)
    IN  /\ op[p] = "gbe"
        /\ pc[p] = "probing"
        /\ op' = [op EXCEPT ![p] = "orphan"]
        /\ last' = [kind |-> "gbe_ret", env |-> e, value |-> answer,
                    swept |-> TRUE, entry0 |-> call[p].entry0, error |-> TRUE,
                    sweep |-> EmptyMap]
        /\ UNCHANGED <<scope, coro, probes, cut, now, ticks, registry, pc, call, local, pending, sweep_id,
                       nsweeps, ncalls, written>>

\* the abandoned helper thread finishes its sweep and runs the first statement
\* of set_results, self._results[env] = results; it holds no lock, so the
\* caller's thread can run between this statement and the next
OrphanStore(p) ==
    /\ op[p] = "orphan"
    /\ gather_done(p)
    /\ registry' = [registry EXCEPT !.results = Put(@, call[p].env, local[p])]
    /\ written' = Put(written, call[p].env, [res |-> local[p], at |-> now])
    /\ pc' = [pc EXCEPT ![p] = "storing"]
    /\ last' = Quiet
    /\ UNCHANGED <<scope, coro, probes, cut, now, ticks, op, call, local, pending, sweep_id,
                   nsweeps, ncalls>>

\* the second statement of set_results in the abandoned thread,
\* self._last_check_time[env] = time.time(), and the thread's end
OrphanStamp(p) ==
    /\ op[p] = "orphan"
    /\ pc[p] = "storing"
    /\ registry' = [registry EXCEPT !.last_check_time = Put(@, call[p].env, now)]
    /\ last' = Quiet
    /\ Finish(p)
    /\ UNCHANGED <<scope, coro, probes, cut, now, ticks, nsweeps, ncalls, written>>

\* ------------------------------------------- validate_endpoint_availability
ValidateUrls(e) == {get_default_endpoints(e).lcd, get_default_endpoints(e).grpc}

\* any reachable endpoint counts, whatever its name
found_any(res, type) == \E n \in DOMAIN res : res[n].reachable

\* lines 455-461: is the endpoint named endpoint_type reachable in new_results
found_in_sweep(res, type) == type \in DOMAIN res /\ res[type].reachable

ValidateCall(p, e, t, u) ==
    /\ FreeSlot(p)
    /\ ncalls > 0
    /\ ncalls' = ncalls - 1
    /\ pc' = [pc EXCEPT ![p] = "direct"]
    /\ op' = [op EXCEPT ![p] = "validate"]
    /\ call' = [call EXCEPT ![p] = [NoCall EXCEPT !.env = e, !.type = t]]
    /\ last' = Quiet
    /\ UNCHANGED <<scope, coro, probes, cut, now, ticks, registry, local, pending, sweep_id,
                   nsweeps, written>>

\* the entry is dropped whatever the direct probe returned
after_direct_probe_clear(reg, env, r) == clear_environment_cache(reg, env)

\* lines 440-449: the registry after the direct probe returned r
after_direct_probe(reg, env, r) ==
    IF r.ok THEN reg ELSE clear_environment_cache(reg, env)

\* lines 433-452: the direct probe returned r
ValidateDirect(p, r) ==
    /\ pc[p] = "direct"
    /\ registry' = after_direct_probe(registry, call[p].env, r)
    /\ IF r.ok
       THEN /\ last' = [kind |-> "validate_ret", env |-> call[p].env,
                        type |-> call[p].type,
                        direct_ok |-> TRUE, raised |-> FALSE, value |-> TRUE,
                        sweep |-> EmptyMap]
            /\ Finish(p)
            /\ UNCHANGED <<written, nsweeps, cut>>
       ELSE /\ written' = Del(written, call[p].env)
            /\ cut' = Cleared(call[p].env)
            /\ StartSweep(p, IF r = Raised THEN "validate_exc" ELSE "validate", call[p])
            /\ last' = [kind |-> "validate_miss", env |-> call[p].env,
                        had |-> call[p].env \in DOMAIN registry.results,
                        raised |-> r = Raised]
    /\ UNCHANGED <<scope, coro, probes, now, ticks, ncalls>>

\* lines 452-461: the fresh sweep returns, the verdict is taken from it
ValidateReturn(p) ==
    /\ op[p] = "validate"
    /\ gather_done(p)
    /\ registry' = set_results(registry, call[p].env, local[p], now)
    /\ written' = Put(written, call[p].env, [res |-> local[p], at |-> now])
    /\ last' = [kind |-> "validate_ret", env |-> call[p].env,
                type |-> call[p].type,
                direct_ok |-> FALSE, raised |-> FALSE,
                value |-> found_in_sweep(local[p], call[p].type),
                sweep |-> local[p]]
    /\ Finish(p)
    /\ UNCHANGED <<scope, coro, probes, cut, now, ticks, nsweeps, ncalls>>

\* the sweep's result is not looked at
except_verdict_false(res, type) == FALSE

\* lines 473-480: the verdict of the except branch over new_results
except_verdict(res, type) == type \in DOMAIN res /\ res[type].reachable

\* lines 463-480: the sweep started in the except branch returns
ValidateExcReturn(p) ==
    /\ op[p] = "validate_exc"
    /\ gather_done(p)
    /\ registry' = set_results(registry, call[p].env, local[p], now)
    /\ written' = Put(written, call[p].env, [res |-> local[p], at |-> now])
    /\ last' = [kind |-> "validate_ret", env |-> call[p].env,
                type |-> call[p].type,
                direct_ok |-> FALSE, raised |-> TRUE,
                value |-> except_verdict(local[p], call[p].type),
                sweep |-> local[p]]
    /\ Finish(p)
    /\ UNCHANGED <<scope, coro, probes, cut, now, ticks, nsweeps, ncalls>>

\* ---------------------------------------------------- refresh_endpoints
\* lines 300-313 of get_best_endpoints: the registry after the lookup and the
\* map served from the cache (empty: nothing to serve, a sweep follows)
gbe_from_cache(reg, env, t) ==
    LET g == get_results(reg, env, t)
        usable == cache_usable(g.reg, env, g.value, t)
    IN  [reg |-> g.reg,
         value |-> IF usable THEN available_endpoints(g.value) ELSE EmptyMap]

\* the entry is not removed
refresh_clear_skip(reg, env) == reg

\* lines 373-374: registry.clear_environment_cache(environment)
refresh_clear(reg, env) == clear_environment_cache(reg, env)

\* history kept with a call: was a valid entry stored when it started, and
\* did it hold a reachable endpoint
entry0_of(reg, e, t) ==
    LET valid0 == is_cache_valid(reg, e, t)
    IN  [valid |-> valid0,
         reach |-> valid0 /\ \E n \in DOMAIN reg.results[e] : reg.results[e][n].reachable,
         again |-> FALSE]

\* lines 370-381: drop the entry, then get_best_endpoints up to its sweep
RefreshCall(p, e) ==
    LET c == gbe_from_cache(refresh_clear(registry, e), e, now)
        entry0 == entry0_of(registry, e, now)
    IN  /\ FreeSlot(p)
        /\ ncalls > 0
        /\ ncalls' = ncalls - 1
        /\ registry' = c.reg
        /\ written' = Del(written, e)
        /\ cut' = Cleared(e)
        /\ IF DOMAIN c.value # {}
           THEN /\ last' = [kind |-> "refresh_ret", env |-> e, value |-> c.value,
                            swept |-> FALSE, error |-> FALSE, sweep |-> EmptyMap,
                            entry0 |-> entry0]
                /\ UNCHANGED <<pc, op, call, local, pending, sweep_id, nsweeps>>
           ELSE /\ StartSweep(p, "refresh", [NoCall EXCEPT !.env = e, !.entry0 = entry0])
                /\ last' = Quiet
        /\ UNCHANGED <<scope, coro, probes, now, ticks>>

\* the sweep of the refresh completes in time: lines 321-343
RefreshReturn(p) ==
    LET e == call[p].env
    IN  /\ op[p] = "refresh"
        /\ gather_done(p)
        /\ registry' = set_results(registry, e, local[p], now)
        /\ written' = Put(written, e, [res |-> local[p], at |-> now])
        /\ last' = [kind |-> "refresh_ret", env |-> e,
                    value |-> select_after_sweep(e, local[p]),
                    swept |-> TRUE, error |-> FALSE, sweep |-> local[p],
                    entry0 |-> call[p].entry0]
        /\ Finish(p)
        /\ UNCHANGED <<scope, coro, probes, cut, now, ticks, nsweeps, ncalls>>

\* lines 261-264 under the refresh: the wrapper reports an error, the
\* defaults are returned and the helper thread goes on
RefreshTimeout(p) ==
    /\ op[p] = "refresh"
    /\ pc[p] = "probing"
    /\ op' = [op EXCEPT ![p] = "orphan"]
    /\ last' = [kind |-> "refresh_ret", env |-> call[p].env,
                value |-> sweep_failed_answer(call[p].env),
                swept |-> TRUE, error |-> TRUE, sweep |-> EmptyMap,
                entry0 |-> call[p].entry0]
    /\ UNCHANGED <<scope, coro, probes, cut, now, ticks, registry, pc, call, local, pending, sweep_id,
                   nsweeps, ncalls, written>>

\* --------------------------------------------------- get_smart_endpoint
\* the hardcoded defaults are passed over
smart_pick_nodefault(env, type, best) ==
    IF type \in DOMAIN best THEN best[type]
    ELSE IF lower(env) = "testnet" THEN "https://testnet.lcd.injective.network"
    ELSE "https://lcd.injective.network"

\* lines 502-518: the address chosen for endpoint_type out of best_endpoints
smart_pick(env, type, best) ==
    IF type \in DOMAIN best THEN best[type]
    ELSE IF type \in DOMAIN get_default_endpoints(env)
         THEN get_default_endpoints(env)[type]
    ELSE IF lower(env) = "testnet" THEN "https://testnet.lcd.injective.network"
    ELSE "https://lcd.injective.network"

\* a status of the sweep's dict says reachable
found_reachable(res) == \E n \in DOMAIN res : res[n].reachable

\* what get_smart_endpoint hands back, with the map it chose from; history:
\* the call c, the sweeps it ran, and whether the sweep of its refresh found
\* a reachable endpoint
smart_ret(c, best, swept, error, sweeps, found) ==
    [kind |-> "smart_ret", env |-> c.env, type |-> c.type, best |-> best,
     value |-> smart_pick(c.env, c.type, best), swept |-> swept, error |-> error,
     force |-> c.force, sweeps |-> sweeps, found |-> found]

\* lines 495-500: with force_refresh the refresh comes first, up to its
\* sweep; without it get_best_endpoints runs at once.  A refresh served from
\* the cache returns at once and line 500 reads the same entry again.
SmartCall(p, e, t, force) ==
    LET reg0 == IF force THEN refresh_clear(registry, e) ELSE registry
        c == gbe_from_cache(reg0, e, now)
        hit == DOMAIN c.value # {}
        frame == [NoCall EXCEPT !.env = e, !.type = t, !.n0 = nsweeps, !.force = force]
    IN  /\ FreeSlot(p)
        /\ ncalls > 0
        /\ ncalls' = ncalls - 1
        /\ registry' = c.reg
        /\ written' = IF force THEN Del(written, e) ELSE written
        /\ cut' = IF force THEN Cleared(e) ELSE cut
        /\ IF hit
           THEN /\ last' = smart_ret(frame, c.value, FALSE, FALSE, 0, FALSE)
                /\ UNCHANGED <<pc, op, call, local, pending, sweep_id, nsweeps>>
           ELSE /\ StartSweep(p, IF force THEN "smart_refresh" ELSE "smart", frame)
                /\ last' = Quiet
        /\ UNCHANGED <<scope, coro, probes, now, ticks>>

\* line 500 after the refresh: get_best_endpoints again, up to its sweep
SmartSecond(p, reg, found) ==
    LET e == call[p].env
        c == gbe_from_cache(reg, e, now)
    IN  /\ registry' = c.reg
        /\ IF DOMAIN c.value # {}
           THEN /\ last' = smart_ret(call[p], c.value, TRUE, FALSE,
                                     nsweeps - call[p].n0, found)
                /\ Finish(p)
                /\ UNCHANGED nsweeps
           ELSE /\ StartSweep(p, "smart", [call[p] EXCEPT !.found = found])
                /\ last' = Quiet

\* the sweep of the refresh completes in time; its answer is dropped
SmartRefreshReturn(p) ==
    /\ op[p] = "smart_refresh"
    /\ gather_done(p)
    /\ written' = Put(written, call[p].env, [res |-> local[p], at |-> now])
    /\ SmartSecond(p, set_results(registry, call[p].env, local[p], now),
                   found_reachable(local[p]))
    /\ UNCHANGED <<scope, coro, probes, cut, now, ticks, ncalls>>

\* the sweep of the final get_best_endpoints completes in time
SmartReturn(p) ==
    LET e == call[p].env
    IN  /\ op[p] = "smart"
        /\ gather_done(p)
        /\ registry' = set_results(registry, e, local[p], now)
        /\ written' = Put(written, e, [res |-> local[p], at |-> now])
        /\ last' = smart_ret(call[p], select_after_sweep(e, local[p]), TRUE, FALSE,
                             nsweeps - call[p].n0, call[p].found)
        /\ Finish(p)
        /\ UNCHANGED <<scope, coro, probes, cut, now, ticks, nsweeps, ncalls>>

\* lines 261-264 under the final get_best_endpoints: the defaults are used,
\* the helper thread goes on
SmartTimeout(p) ==
    /\ op[p] = "smart"
    /\ pc[p] = "probing"
    /\ op' = [op EXCEPT ![p] = "orphan"]
    /\ last' = smart_ret(call[p], sweep_failed_answer(call[p].env), TRUE, TRUE,
                         nsweeps - call[p].n0, call[p].found)
    /\ UNCHANGED <<scope, coro, probes, cut, now, ticks, registry, pc, call, local, pending, sweep_id,
                   nsweeps, ncalls, written>>

\* lines 261-264 under the refresh: the helper thread goes on as q while the
\* caller runs get_best_endpoints; the thread left behind counts as one of
\* the operations the run may start
SmartRefreshTimeout(p, q) ==
    LET e == call[p].env
        c == gbe_from_cache(registry, e, now)
        hit == DOMAIN c.value # {}
    IN  /\ op[p] = "smart_refresh"
        /\ pc[p] = "probing"
        /\ q # p
        /\ pc[q] = "idle"
        /\ \A r \in Procs \ {p} : r < q => pc[r] # "idle"
        /\ ncalls > 0
        /\ ncalls' = ncalls - 1
        /\ registry' = c.reg
        /\ pc' = [pc EXCEPT ![q] = "probing", ![p] = IF hit THEN "idle" ELSE "probing"]
        /\ op' = [op EXCEPT ![q] = "orphan", ![p] = IF hit THEN "none" ELSE "smart"]
        /\ call' = [call EXCEPT ![q] = call[p],
                                ![p] = IF hit THEN NoCall
                                       ELSE [call[p] EXCEPT !.found = found_reachable(local[p])]]
        /\ local' = [local EXCEPT ![q] = local[p], ![p] = EmptyMap]
        /\ pending' = [pending EXCEPT ![q] = pending[p],
                          ![p] = IF hit THEN {} ELSE DOMAIN build_injective_endpoints(e)]
        /\ sweep_id' = [sweep_id EXCEPT ![q] = sweep_id[p],
                           ![p] = IF hit THEN 0 ELSE nsweeps + 1]
        /\ nsweeps' = IF hit THEN nsweeps ELSE nsweeps + 1
        /\ last' = IF hit THEN smart_ret(call[p], c.value, TRUE, FALSE,
                                         nsweeps - call[p].n0, found_reachable(local[p]))
                   ELSE Quiet
        /\ UNCHANGED <<scope, coro, probes, cut, now, ticks, written>>

\* lines 254-255 and 280-281: the sweep raised before it stored anything; the
\* wrapper returns {"error": ...}, get_best_endpoints the defaults, and
\* after a refresh get_smart_endpoint goes on with line 500
SweepRaised(p) ==
    LET e == call[p].env
    IN  /\ pc[p] = "probing"
        /\ op[p] \in {"refresh", "smart", "smart_refresh"}
        /\ IF op[p] = "smart_refresh"
           THEN SmartSecond(p, registry, FALSE)
           ELSE /\ registry' = registry
                /\ last' = IF op[p] = "refresh"
                           THEN [kind |-> "refresh_ret", env |-> e,
                                 value |-> sweep_failed_answer(e),
                                 swept |-> TRUE, error |-> TRUE, sweep |-> EmptyMap,
                                 entry0 |-> call[p].entry0]
                           ELSE smart_ret(call[p], sweep_failed_answer(e), TRUE, TRUE,
                                          nsweeps - call[p].n0, call[p].found)
                /\ Finish(p)
                /\ UNCHANGED nsweeps
        /\ UNCHANGED <<scope, coro, probes, cut, now, ticks, ncalls, written>>

\* ------------------------------------- agent_server.connectivity_endpoint
\* lines 465-470 of agent_server.py: the three reads of the handler, with
\* the registry get_results leaves
connectivity_reads(reg, env, t) ==
    LET g == get_results(reg, env, t)
    IN  [reg |-> g.reg,
         cached |-> [k \in DOMAIN g.value |-> to_dict(g.value[k])],
         cache_info |-> get_cache_info(g.reg, env, t),
         should_recheck |-> should_recheck(g.reg, env, t)]

\* every request runs a sweep
needs_sweep_always(r) == TRUE

\* line 473: if should_recheck or not cached
needs_sweep(r) == r.should_recheck \/ DOMAIN r.cached = {}

\* lines 479-485: the response body
connectivity_response(env, r, fresh, swept) ==
    [kind |-> "conn_ret", env |-> env, cached |-> r.cached, fresh |-> fresh,
     cache_info |-> r.cache_info, should_recheck |-> r.should_recheck,
     swept |-> swept]

\* lines 458-478: the request arrives; the handler reads the registry and
\* answers from the cache or awaits a sweep
ConnCall(p, e) ==
    LET r == connectivity_reads(registry, e, now)
    IN  /\ FreeSlot(p)
        /\ ncalls > 0
        /\ ncalls' = ncalls - 1
        /\ registry' = r.reg
        /\ IF needs_sweep(r)
           THEN /\ StartSweep(p, "conn", [NoCall EXCEPT !.env = e, !.held = r])
                /\ last' = Quiet
           ELSE /\ last' = connectivity_response(e, r, r.cached, FALSE)
                /\ UNCHANGED <<pc, op, call, local, pending, sweep_id, nsweeps>>
        /\ UNCHANGED <<scope, coro, probes, cut, now, ticks, written>>

\* lines 475-485: the sweep returns (it has stored its result, line 231 of
\* connectivity.py) and the response is built
ConnReturn(p) ==
    /\ op[p] = "conn"
    /\ gather_done(p)
    /\ registry' = set_results(registry, call[p].env, local[p], now)
    /\ written' = Put(written, call[p].env, [res |-> local[p], at |-> now])
    /\ last' = connectivity_response(call[p].env, call[p].held,
                                     [k \in DOMAIN local[p] |-> to_dict(local[p][k])], TRUE)
    /\ Finish(p)
    /\ UNCHANGED <<scope, coro, probes, cut, now, ticks, nsweeps, ncalls>>

\* ------------------------- indexer_requests.get_best_available_endpoint
\* lines 79-115: the static default; lib says whether pyinjective's Network
\* could be used, whose lcd and grpc addresses are not part of this code
get_default_endpoint(is_mainnet, type, lib) ==
    IF lib /\ type \in {"lcd", "grpc"}
    THEN IF is_mainnet THEN "Network.mainnet()." \o type \o "_endpoint"
         ELSE "Network.testnet()." \o type \o "_endpoint"
    ELSE IF type = "lcd"
         THEN IF is_mainnet THEN "https://lcd.injective.network"
              ELSE "https://testnet.lcd.injective.network"
    ELSE IF type = "grpc"
         THEN IF is_mainnet THEN "grpc.injective.network:9900"
              ELSE "testnet.grpc.injective.network:9900"
    ELSE IF is_mainnet THEN "https://tm.injective.network"
         ELSE "https://testnet.tm.injective.network"

\* a value get_smart_endpoint or validate_endpoint_availability has just
\* returned is taken over by the coroutine before anything else runs
Handoff ==
    /\ coro.phase # "idle"
    /\ last.kind \in {"smart_ret", "validate_ret"}

\* the coroutine is between two of its calls
BestReady(phase) ==
    /\ coro.phase = phase
    /\ ~Handoff
    /\ \A q \in Procs : op[q] \in {"none", "orphan"}

\* what get_best_available_endpoint returns; history: how it got there
best_ret(path, value, direct_ok, sweep, validates) ==
    [kind |-> "best_ret", env |-> coro.env, type |-> coro.type,
     path |-> path, value |-> value, direct_ok |-> direct_ok, sweep |-> sweep,
     validates |-> validates, refreshes |-> coro.refreshes]

\* lines 14-35: the call, up to get_smart_endpoint; when network.connectivity
\* cannot be imported the static default is returned at once
BestCall(is_mainnet, t, importable) ==
    /\ coro.phase = "idle"
    /\ (IF is_mainnet THEN "mainnet" ELSE "testnet") \in scope.envs
    /\ ncalls > 0
    /\ IF importable
       THEN /\ coro' = [NoBest EXCEPT !.phase = "smart",
                                      !.env = IF is_mainnet THEN "mainnet" ELSE "testnet",
                                      !.type = t]
            /\ last' = Quiet
            /\ UNCHANGED ncalls
       ELSE /\ \E lib \in BOOLEAN :
                  last' = [best_ret("default", get_default_endpoint(is_mainnet, t, lib),
                                    FALSE, EmptyMap, 0)
                             EXCEPT !.env = IF is_mainnet THEN "mainnet" ELSE "testnet",
                                    !.type = t]
            /\ ncalls' = ncalls - 1
            /\ UNCHANGED coro
    /\ UNCHANGED <<scope, probes, cut, now, ticks, registry, pc, op, call, local, pending,
                   sweep_id, nsweeps, written>>

\* lines 38-65: the coroutine goes on with the value just returned
BestResume ==
    /\ Handoff
    /\ \/ /\ coro.phase \in {"smart", "smart_forced"}
          /\ last.kind = "smart_ret"
          /\ coro' = [coro EXCEPT !.phase = "validate", !.url = last.value,
                                  !.refreshes = IF last.force THEN @ + 1 ELSE @]
          /\ last' = Quiet
       \/ /\ coro.phase = "validate"
          /\ last.kind = "validate_ret"
          /\ LET ret(path, value) ==
                     best_ret(path, value, last.direct_ok, last.sweep, coro.validates + 1)
             IN  IF last.value
                 THEN /\ last' = ret(IF coro.refreshes = 0 THEN "validated" ELSE "refreshed",
                                     coro.url)
                      /\ coro' = NoBest
                 ELSE IF coro.refreshes = 0
                 THEN /\ last' = Quiet
                      /\ coro' = [coro EXCEPT !.phase = "smart_forced", !.validates = @ + 1]
                 ELSE /\ \E lib \in BOOLEAN :
                            last' = ret("default",
                                        get_default_endpoint(coro.env = "mainnet", coro.type, lib))
                      /\ coro' = NoBest
    /\ UNCHANGED <<scope, probes, cut, now, ticks, registry, procVars, written>>

\* lines 38 and 49: get_smart_endpoint is called, with force_refresh the
\* second time
BestSmart(p) ==
    /\ \/ BestReady("smart") /\ SmartCall(p, coro.env, coro.type, FALSE)
       \/ BestReady("smart_forced") /\ SmartCall(p, coro.env, coro.type, TRUE)

\* lines 41 and 52: validate_endpoint_availability is called with the address
\* get_smart_endpoint returned
BestValidate(p) ==
    /\ BestReady("validate")
    /\ ValidateCall(p, coro.env, coro.type, coro.url)

\* ------------------------------------------------------------ catalog lookup
\* environment strings handed to the catalog: the two known names, other
\* spellings of them, the empty string and an unknown name
EnvNames == {"testnet", "mainnet", "Testnet", "TESTNET", "Mainnet", "", "foo"}

\* a caller looks up the catalog of an environment name
Catalog(p, name) ==
    /\ FreeSlot(p)
    /\ ncalls > 0
    /\ ncalls' = ncalls - 1
    /\ last' = [kind |-> "catalog", env |-> name,
                value |-> build_injective_endpoints(name)]
    /\ UNCHANGED <<scope, coro, probes, cut, now, ticks, registry, pc, op, call, local, pending,
                   sweep_id, nsweeps, written>>

\* ------------------------------------------------- _check_http, _check_tcp
\* Here one clock step is one unit of time.perf_counter(); every probe gets
\* the timeout ProbeTimeout, as check_injective_connectivity hands its own
\* timeout to each of them.  latency is elapsed clock steps (the code
\* multiplies by 1000.0).

\* urls handed to _check_http: the two catalog urls, a Tendermint RPC url, a
\* url with neither "lcd" nor "tm" in it, and a string that is no url
ProbeUrls ==
    { "https://testnet.lcd.injective.network", "https://lcd.injective.network",
      "https://tm.rpc.example.org", "https://api.example.org", "no url" }

\* "lcd" in url.lower()
has_lcd(url) == url \in {"https://testnet.lcd.injective.network", "https://lcd.injective.network"}

\* "tm" in url.lower()
has_tm(url) == url = "https://tm.rpc.example.org"

\* aiohttp takes the string as a url
is_url(url) == url # "no url"

\* addresses handed to _check_tcp: the two catalog addresses, a host without
\* port, a port that is no number, a port out of range
ProbeAddresses ==
    { "testnet.grpc.injective.network:443", "grpc.injective.network:443",
      "grpc.example.org", "grpc.example.org:abc", "grpc.example.org:99999" }

\* lines 121-128
parse_host_port(address) ==
    CASE address = "testnet.grpc.injective.network:443" ->
             [host |-> "testnet.grpc.injective.network", port |-> 443]
      [] address = "grpc.injective.network:443" ->
             [host |-> "grpc.injective.network", port |-> 443]
      [] address = "grpc.example.org:99999" ->
             [host |-> "grpc.example.org", port |-> 99999]
      [] OTHER -> [host |-> address, port |-> 443]

\* the name can be looked up
is_host(host) == host # "grpc.example.org:abc"

\* response statuses
HttpStatuses == {200, 403, 404, 405, 499, 500, 501, 502, 503}

\* str(e) of the exceptions the probes catch
str_of(exc) ==
    CASE exc = "TimeoutError" -> ""
      [] exc = "gaierror" -> "[Errno -2] Name or service not known"
      [] exc = "ConnectionRefusedError" -> "[Errno 111] Connect call failed"
      [] exc = "OverflowError" -> "connect(): port must be 0-65535."
      [] exc = "ClientConnectorError" -> "Cannot connect to host"
      [] exc = "InvalidURL" -> "no url"
      [] OTHER -> exc

\* lines 160-170: ok for a response with this status
http_ok(url, status) ==
    LET ok0 == status < 500
        ok1 == IF has_lcd(url) /\ status \in {404, 501} THEN TRUE ELSE ok0
    IN  IF has_tm(url) /\ status = 405 THEN TRUE ELSE ok1

\* a probe coroutine that has just been created; "phase" is the await it is
\* suspended in, "since" the time that await began
NewTask(kind, target) ==
    [kind |-> kind, target |-> target, start |-> now, since |-> now,
     phase |-> IF kind = "http" THEN "request" ELSE "getaddrinfo",
     status |-> 0, ok |-> FALSE, latency |-> "None", error |-> "None"]

\* the coroutine returns (ok, latency, error)
Returned(task, ok, error) ==
    [task EXCEPT !.phase = "done", !.ok = ok, !.latency = now - task.start,
                 !.error = error]

Waiting(n) == n \in DOMAIN probes.tasks /\ probes.tasks[n].phase # "done"

SetTask(n, task) ==
    /\ probes' = [probes EXCEPT !.tasks = Put(@, n, task)]
    /\ last' = Quiet
    /\ UNCHANGED <<scope, coro, cut, now, ticks, registry, procVars, written>>

\* lines 206-226: one task per catalog endpoint
ProbeSweepStart(e) ==
    /\ probes.mode = "none"
    /\ ncalls > 0
    /\ ncalls' = ncalls - 1
    /\ probes' = [mode |-> "sweep", start |-> now,
                  tasks |-> [n \in DOMAIN build_injective_endpoints(e) |->
                                NewTask(build_injective_endpoints(e)[n].kind,
                                        build_injective_endpoints(e)[n].target)]]
    /\ last' = Quiet
    /\ UNCHANGED <<scope, coro, cut, now, ticks, registry, pc, op, call, local, pending,
                   sweep_id, nsweeps, written>>

\* one probe called by itself, as lines 433-438 do
ProbeDirectStart(kind, target) ==
    /\ probes.mode = "none"
    /\ ncalls > 0
    /\ ncalls' = ncalls - 1
    /\ probes' = [mode |-> "direct", start |-> now,
                  tasks |-> [n \in {"direct"} |-> NewTask(kind, target)]]
    /\ last' = Quiet
    /\ UNCHANGED <<scope, coro, cut, now, ticks, registry, pc, op, call, local, pending,
                   sweep_id, nsweeps, written>>

\* time passes while a probe is suspended; an await with a timeout does not
\* outlast it, and gather returns when the last probe does
Elapse ==
    /\ \E n \in DOMAIN probes.tasks : Waiting(n)
    /\ ticks > 0
    /\ \A n \in DOMAIN probes.tasks : Waiting(n) => now - probes.tasks[n].since < ProbeTimeout
    /\ now' = now + 1
    /\ ticks' = ticks - 1
    /\ last' = Quiet
    /\ UNCHANGED <<scope, coro, cut, registry, procVars, written, probes>>

\* lines 159-173: a response arrived
HttpResponse(n, status) ==
    LET task == probes.tasks[n]
    IN  /\ Waiting(n)
        /\ task.phase = "request"
        /\ is_url(task.target)
        /\ SetTask(n, [Returned(task, http_ok(task.target, status), "None")
                           EXCEPT !.status = status])

\* lines 174-176: ClientTimeout(total=timeout) ran out
HttpTimeout(n) ==
    LET task == probes.tasks[n]
    IN  /\ Waiting(n)
        /\ task.phase = "request"
        /\ is_url(task.target)
        /\ now - task.since = ProbeTimeout
        /\ SetTask(n, Returned(task, FALSE, "Timeout"))

\* lines 177-179: name resolution failed or the connection was refused
HttpConnectError(n) ==
    LET task == probes.tasks[n]
    IN  /\ Waiting(n)
        /\ task.phase = "request"
        /\ is_url(task.target)
        /\ SetTask(n, Returned(task, FALSE, "Connection error: " \o str_of("ClientConnectorError")))

\* lines 180-182: any other exception, the string being no url among them
HttpOtherError(n) ==
    LET task == probes.tasks[n]
    IN  /\ Waiting(n)
        /\ task.phase = "request"
        /\ ~is_url(task.target)
        /\ SetTask(n, Returned(task, FALSE, str_of("InvalidURL")))

\* line 191: getaddrinfo answered; line 192 awaits open_connection under a
\* wait_for of its own, whose timeout starts now
TcpResolved(n) ==
    LET task == probes.tasks[n]
        hp == parse_host_port(task.target)
    IN  /\ Waiting(n)
        /\ task.phase = "getaddrinfo"
        /\ is_host(hp.host)
        /\ SetTask(n, [task EXCEPT !.phase = "connect", !.since = now])

\* getaddrinfo raised
TcpResolveError(n) ==
    LET task == probes.tasks[n]
    IN  /\ Waiting(n)
        /\ task.phase = "getaddrinfo"
        /\ SetTask(n, Returned(task, FALSE, str_of("gaierror")))

\* open_connection raised: refused, or a port no socket takes
TcpConnectError(n) ==
    LET task == probes.tasks[n]
        hp == parse_host_port(task.target)
    IN  /\ Waiting(n)
        /\ task.phase = "connect"
        /\ SetTask(n, Returned(task, FALSE,
                       str_of(IF hp.port > 65535 THEN "OverflowError"
                                 ELSE "ConnectionRefusedError")))

\* one of the two wait_for ran out
TcpTimeout(n) ==
    LET task == probes.tasks[n]
    IN  /\ Waiting(n)
        /\ task.phase \in {"getaddrinfo", "connect"}
        /\ now - task.since = ProbeTimeout
        /\ SetTask(n, Returned(task, FALSE, str_of("TimeoutError")))

\* lines 193-199: connected; writer.close(), wait_closed
TcpConnected(n) ==
    LET task == probes.tasks[n]
        hp == parse_host_port(task.target)
    IN  /\ Waiting(n)
        /\ task.phase = "connect"
        /\ hp.port <= 65535
        /\ SetTask(n, Returned(task, TRUE, "None"))

\* gather has returned (or the one probe has): what the probes handed back
ProbeReturn ==
    /\ probes.mode # "none"
    /\ \A n \in DOMAIN probes.tasks : ~Waiting(n)
    /\ last' = [kind |-> "probe_ret", mode |-> probes.mode,
                elapsed |-> now - probes.start, tasks |-> probes.tasks]
    /\ probes' = NoProbes
    /\ UNCHANGED <<scope, coro, cut, now, ticks, registry, procVars, written>>

\* ---------------------------------------------------------- specifications
Next ==
    \/ \E d \in scope.steps : Tick(d)
    \/ \E e \in scope.envs : Get(e)
    \/ \E e \in scope.envs : Invalidate(e)
    \/ \E p \in Procs, e \in scope.envs : SweepCall(p, e)
    \/ \E p \in Procs, n \in {"lcd", "grpc"}, r \in ProbeResults : ProbeDone(p, n, r)
    \/ \E p \in Procs : SweepReturn(p)
    \/ \E p \in Procs, e \in scope.envs : GBECall(p, e)
    \/ \E p \in Procs : GBEReturn(p)
    \/ \E p \in Procs : GBETimeout(p)
    \/ \E p \in Procs : OrphanStore(p)
    \/ \E p \in Procs : OrphanStamp(p)
    \/ \E p \in Procs, e \in scope.envs, t \in EndpointTypes :
           \E u \in ValidateUrls(e) : ValidateCall(p, e, t, u)
    \/ \E p \in Procs, r \in ProbeResults : ValidateDirect(p, r)
    \/ \E p \in Procs : ValidateReturn(p)

\* result maps handed to set_results directly: empty, partial, complete
SetInputs ==
    LET st(n, ok) == run_check(n, build_injective_endpoints("testnet")[n],
                               [ok |-> ok, error |-> "None"], 0)
    IN  { EmptyMap,
          [lcd |-> st("lcd", TRUE)],
          [grpc |-> st("grpc", FALSE)],
          [lcd |-> st("lcd", FALSE), grpc |-> st("grpc", TRUE)] }

RegistryNext ==
    \/ \E d \in scope.steps : Tick(d)
    \/ \E e \in scope.envs, res \in SetInputs : Set(e, res)
    \/ \E e \in scope.envs : Get(e)
    \/ \E e \in scope.envs : IsValid(e)
    \/ \E e \in scope.envs : ShouldRecheck(e)
    \/ \E e \in scope.envs : CacheInfo(e)
    \/ \E e \in scope.envs : Invalidate(e)
    \/ InvalidateAll

\* the selection functions and the except branch of the validation
SelNext ==
    \/ \E d \in scope.steps : Tick(d)
    \/ \E p \in Procs, name \in EnvNames : Catalog(p, name)
    \/ \E p \in Procs, e \in scope.envs : RefreshCall(p, e)
    \/ \E p \in Procs : RefreshReturn(p)
    \/ \E p \in Procs : RefreshTimeout(p)
    \/ \E p \in Procs, e \in scope.envs, t \in EndpointTypes, force \in BOOLEAN :
           SmartCall(p, e, t, force)
    \/ \E p \in Procs : SmartRefreshReturn(p)
    \/ \E p, q \in Procs : SmartRefreshTimeout(p, q)
    \/ \E p \in Procs : SmartReturn(p)
    \/ \E p \in Procs : SmartTimeout(p)
    \/ \E p \in Procs : SweepRaised(p)
    \/ \E p \in Procs : OrphanStore(p)
    \/ \E p \in Procs : OrphanStamp(p)
    \/ \E e \in scope.envs : Get(e)
    \/ \E e \in scope.envs : Invalidate(e)
    \/ \E p \in Procs, n \in {"lcd", "grpc"}, r \in ProbeResults : ProbeDone(p, n, r)
    \/ \E p \in Procs, e \in scope.envs, t \in EndpointTypes :
           \E u \in ValidateUrls(e) : ValidateCall(p, e, t, u)
    \/ \E p \in Procs, r \in DirectResults : ValidateDirect(p, r)
    \/ \E p \in Procs : ValidateReturn(p)
    \/ \E p \in Procs : ValidateExcReturn(p)

\* the probes followed one await at a time
ProbeNext ==
    \/ \E e \in scope.envs : ProbeSweepStart(e)
    \/ \E u \in ProbeUrls : ProbeDirectStart("http", u)
    \/ \E a \in ProbeAddresses : ProbeDirectStart("tcp", a)
    \/ Elapse
    \/ \E n \in {"lcd", "grpc", "direct"}, status \in HttpStatuses : HttpResponse(n, status)
    \/ \E n \in {"lcd", "grpc", "direct"} : HttpTimeout(n)
    \/ \E n \in {"lcd", "grpc", "direct"} : HttpConnectError(n)
    \/ \E n \in {"lcd", "grpc", "direct"} : HttpOtherError(n)
    \/ \E n \in {"lcd", "grpc", "direct"} : TcpResolved(n)
    \/ \E n \in {"lcd", "grpc", "direct"} : TcpResolveError(n)
    \/ \E n \in {"lcd", "grpc", "direct"} : TcpConnectError(n)
    \/ \E n \in {"lcd", "grpc", "direct"} : TcpTimeout(n)
    \/ \E n \in {"lcd", "grpc", "direct"} : TcpConnected(n)
    \/ ProbeReturn

Spec == Init /\ [][Next]_vars
SpecProbe == ProbeInit /\ [][ProbeNext]_vars
SpecSel == SelInit /\ [][SelNext]_vars

\* the code that follows a finished gather in the caller p
Resume(p) ==
    \/ RefreshReturn(p)
    \/ SmartRefreshReturn(p)
    \/ SmartReturn(p)
    \/ ValidateReturn(p)
    \/ ValidateExcReturn(p)
    \/ OrphanStore(p)
    \/ OrphanStamp(p)

\* every probe returns in the end (each has its timeout), and the event loop
\* resumes a coroutine whose await is over
SelFairness ==
    \A p \in Procs :
        /\ WF_vars(\E n \in {"lcd", "grpc"}, r \in ProbeResults : ProbeDone(p, n, r))
        /\ WF_vars(\E r \in DirectResults : ValidateDirect(p, r))
        /\ WF_vars(Resume(p))

\* the calls that run sweeps, their probes and what can cross them; the clock
\* stands still, a lookup misses after clear_environment_cache
LiveNext ==
    \/ \E p \in Procs, e \in scope.envs : RefreshCall(p, e)
    \/ \E p \in Procs : RefreshReturn(p)
    \/ \E p \in Procs : RefreshTimeout(p)
    \/ \E p \in Procs, e \in scope.envs, t \in EndpointTypes, force \in BOOLEAN :
           SmartCall(p, e, t, force)
    \/ \E p \in Procs : SmartRefreshReturn(p)
    \/ \E p, q \in Procs : SmartRefreshTimeout(p, q)
    \/ \E p \in Procs : SmartReturn(p)
    \/ \E p \in Procs : SmartTimeout(p)
    \/ \E p \in Procs : SweepRaised(p)
    \/ \E p \in Procs : OrphanStore(p)
    \/ \E p \in Procs : OrphanStamp(p)
    \/ \E e \in scope.envs : Invalidate(e)
    \/ \E p \in Procs, n \in {"lcd", "grpc"}, r \in ProbeResults : ProbeDone(p, n, r)
    \/ \E p \in Procs, e \in scope.envs, t \in EndpointTypes :
           \E u \in ValidateUrls(e) : ValidateCall(p, e, t, u)
    \/ \E p \in Procs, r \in DirectResults : ValidateDirect(p, r)
    \/ \E p \in Procs : ValidateReturn(p)
    \/ \E p \in Procs : ValidateExcReturn(p)

SpecLive == LiveInit /\ [][LiveNext]_vars /\ SelFairness

\* sweeps, validations and refreshes of several callers, and the reads that
\* follow them
CutNext ==
    \/ \E p \in Procs, e \in scope.envs : SweepCall(p, e)
    \/ \E p \in Procs, n \in {"lcd", "grpc"}, r \in ProbeResults : ProbeDone(p, n, r)
    \/ \E p \in Procs : SweepReturn(p)
    \/ \E p \in Procs, e \in scope.envs, t \in EndpointTypes :
           \E u \in ValidateUrls(e) : ValidateCall(p, e, t, u)
    \/ \E p \in Procs, r \in ProbeResults : ValidateDirect(p, r)
    \/ \E p \in Procs : ValidateReturn(p)
    \/ \E p \in Procs, e \in scope.envs : RefreshCall(p, e)
    \/ \E p \in Procs : RefreshReturn(p)
    \/ \E p \in Procs : RefreshTimeout(p)
    \/ \E p \in Procs : OrphanStore(p)
    \/ \E p \in Procs : OrphanStamp(p)
    \/ \E e \in scope.envs : Get(e)

SpecCut == CutInit /\ [][CutNext]_vars

\* requests to /network/connectivity, their sweeps and the clock
ConnNext ==
    \/ \E d \in scope.steps : Tick(d)
    \/ \E p \in Procs, e \in scope.envs : ConnCall(p, e)
    \/ \E p \in Procs, n \in {"lcd", "grpc"}, r \in ProbeResults : ProbeDone(p, n, r)
    \/ \E p \in Procs : ConnReturn(p)

SpecConn == ConnInit /\ [][ConnNext]_vars

\* get_best_available_endpoint with the calls it makes, their sweeps and the
\* helper threads they leave behind
BestNext ==
    \/ \E m, importable \in BOOLEAN, t \in EndpointTypes : BestCall(m, t, importable)
    \/ BestResume
    \/ \E p \in Procs : BestSmart(p)
    \/ \E p \in Procs : BestValidate(p)
    \/ \E p \in Procs, n \in {"lcd", "grpc"}, r \in ProbeResults :
           ~Handoff /\ ProbeDone(p, n, r)
    \/ \E p \in Procs : ~Handoff /\ SmartReturn(p)
    \/ \E p \in Procs : ~Handoff /\ SmartRefreshReturn(p)
    \/ \E p \in Procs : ~Handoff /\ SmartTimeout(p)
    \/ \E p, q \in Procs : ~Handoff /\ SmartRefreshTimeout(p, q)
    \/ \E p \in Procs : ~Handoff /\ SweepRaised(p)
    \/ \E p \in Procs, r \in ProbeResults : ~Handoff /\ ValidateDirect(p, r)
    \/ \E p \in Procs : ~Handoff /\ ValidateReturn(p)
    \/ \E p \in Procs : ~Handoff /\ OrphanStore(p)
    \/ \E p \in Procs : ~Handoff /\ OrphanStamp(p)

SpecBest == BestInit /\ [][BestNext]_vars
SpecSeq == SeqInit /\ [][Next]_vars
SpecRegistry == RegistryInit /\ [][RegistryNext]_vars

\* ------------------------------------------------------------------ claims
\* v is the complete result of one sweep of environment e
CompleteSweep(e, v) ==
    /\ DOMAIN v = DOMAIN build_injective_endpoints(e)
    /\ \A n \in DOMAIN v :
          /\ v[n].name = n
          /\ v[n].kind = build_injective_endpoints(e)[n].kind
          /\ v[n].target = build_injective_endpoints(e)[n].target
          /\ v[n].reachable \in BOOLEAN
    /\ \A n, m \in DOMAIN v : v[n].sweep = v[m].sweep

\* C1: whatever sweeps, validations, invalidations and reads interleave, a
\* value read with get(E) (and the entry the registry stores) is empty or the
\* complete result map of one single sweep: never statuses of two sweeps,
\* never a map lacking a catalog endpoint.
C1_ReadsSeeWholeSweeps ==
    /\ last.kind = "get" =>
          (DOMAIN last.value = {} \/ CompleteSweep(last.env, last.value))
    /\ \A e \in DOMAIN registry.results : CompleteSweep(e, registry.results[e])

\* a reader got a stored result while another sweep of the same environment
\* was half done
C1_Witness ==
    /\ last.kind = "get"
    /\ DOMAIN last.value # {}
    /\ \E p \in Procs :
          /\ pc[p] = "probing"
          /\ call[p].env = last.env
          /\ DOMAIN local[p] # {}
          /\ pending[p] # {}
          /\ \A n \in DOMAIN local[p] : local[p][n].sweep # last.value[n].sweep

\* the sweep result carried by a returning call, if it ran one
SweepOf(ev) ==
    IF ev.kind = "sweep_ret" THEN ev.value
    ELSE IF ev.kind \in {"gbe_ret", "validate_ret"} THEN ev.sweep
    ELSE EmptyMap

\* C2: the map a sweep returns has exactly the catalog's endpoint names as
\* keys, each status carrying name, kind and target of its descriptor,
\* whatever the probes' outcomes.
C2_SweepCoversCatalog ==
    /\ last.kind = "sweep_ret" => CompleteSweep(last.env, last.value)
    /\ DOMAIN SweepOf(last) # {} => CompleteSweep(last.env, SweepOf(last))

\* a sweep returned with one endpoint reachable and its sibling failed
C2_Witness ==
    /\ last.kind = "sweep_ret"
    /\ \E n, m \in DOMAIN last.value :
          last.value[n].reachable /\ ~last.value[m].reachable

\* C3: get_best_endpoints(E) returns a non-empty map, and the hardcoded
\* default map of E when the sweep it ran found no reachable endpoint.
C3_SelectionNeverEmpty ==
    last.kind = "gbe_ret" =>
        /\ DOMAIN last.value # {}
        /\ (last.swept /\ \A n \in DOMAIN last.sweep : ~last.sweep[n].reachable)
              => last.value = get_default_endpoints(last.env)

\* a call that found a valid entry, swept, saw every probe fail and answered
\* with the defaults
C3_Witness ==
    /\ last.kind = "gbe_ret"
    /\ last.swept
    /\ ~last.error
    /\ last.entry0.valid
    /\ DOMAIN last.sweep # {}
    /\ \A n \in DOMAIN last.sweep : ~last.sweep[n].reachable
    /\ last.value = get_default_endpoints(last.env)

\* C4: get(E) after set(E, R), with no set or invalidate of E in between
\* and at most max_cache_age elapsed, returns exactly R.
C4_GetReturnsLastSet ==
    [][ \A e \in Environments :
           ( /\ last'.kind = "get"
             /\ last'.env = e
             /\ e \in DOMAIN written
             /\ now - written[e].at <= max_cache_age )
           => last'.value = written[e].res ]_vars

\* a partial map, set over an earlier entry, is read back unchanged at the
\* age max_cache_age
C4_Witness ==
    /\ last.kind = "get"
    /\ last.env \in DOMAIN written
    /\ last.value = written[last.env].res
    /\ DOMAIN last.value = {"grpc"}
    /\ now - written[last.env].at = max_cache_age

\* C5: once more than max_cache_age has elapsed since the last set(E, .),
\* with no invalidate, get(E) returns the empty map and removes the entry;
\* a non-empty value returned by get(E) is never older than max_cache_age.
C5_ExpiredOnRead ==
    [][ \A e \in Environments :
           (last'.kind = "get" /\ last'.env = e) =>
              /\ (e \in DOMAIN written /\ now - written[e].at > max_cache_age)
                    => /\ DOMAIN last'.value = {}
                       /\ e \notin DOMAIN registry'.results
                       /\ e \notin DOMAIN registry'.last_check_time
              /\ DOMAIN last'.value # {}
                    => (e \in DOMAIN written /\ now - written[e].at <= max_cache_age)
      ]_vars

\* a stored non-empty result, never invalidated, is refused and evicted by
\* a read at an age above max_cache_age
C5_Witness ==
    /\ last.kind = "get"
    /\ DOMAIN last.value = {}
    /\ last.env \in DOMAIN written
    /\ DOMAIN written[last.env].res # {}
    /\ now - written[last.env].at > max_cache_age
    /\ last.env \notin DOMAIN registry.results

\* C6: should_recheck(E) is true iff E has no entry or its age is at least
\* check_interval: false right after set, true from the age check_interval
\* on, and between check_interval and max_cache_age the entry is valid and
\* flagged for a recheck at the same time.
C6_ShouldRecheckBoundary ==
    [][ \A e \in Environments :
           (last'.kind = "should_recheck" /\ last'.env = e) =>
              LET has == e \in DOMAIN registry.last_check_time
                  age == now - registry.last_check_time[e]
              IN  /\ last'.value <=> (~has \/ age >= check_interval)
                  /\ (e \in DOMAIN written /\ written[e].at = now) => ~last'.value
                  /\ ( /\ last.kind = "is_valid"
                       /\ last.env = e
                       /\ has
                       /\ age >= check_interval
                       /\ age <= max_cache_age )
                     => (last.value /\ last'.value)
      ]_vars

\* should_recheck answered true for a stored entry at the age check_interval
\* exactly
C6_Witness ==
    /\ last.kind = "should_recheck"
    /\ last.value
    /\ last.env \in DOMAIN registry.last_check_time
    /\ now - registry.last_check_time[last.env] = check_interval
    /\ last.env \in DOMAIN registry.results

\* C7: is_valid(E) is true iff an entry is stored and its age is at most
\* max_cache_age; it leaves the registry alone; and for a stored non-empty
\* result get(E) returns it exactly when is_valid(E) is true, the age
\* max_cache_age included.
C7_IsValidAgreesWithGet ==
    [][ \A e \in Environments :
           /\ (last'.kind = "is_valid" /\ last'.env = e) =>
                 /\ registry' = registry
                 /\ last'.value <=>
                       ( /\ e \in DOMAIN registry.results
                         /\ e \in DOMAIN registry.last_check_time
                         /\ now - registry.last_check_time[e] <= max_cache_age )
           /\ ( /\ last.kind = "is_valid"
                /\ last.env = e
                /\ last'.kind = "get"
                /\ last'.env = e
                /\ now' = now
                /\ e \in DOMAIN registry.results
                /\ DOMAIN registry.results[e] # {} )
              => (last'.value = registry.results[e] <=> last.value)
      ]_vars

\* is_valid answered true for a non-empty entry of age max_cache_age exactly
C7_Witness ==
    /\ last.kind = "is_valid"
    /\ last.value
    /\ last.env \in DOMAIN registry.results
    /\ DOMAIN registry.results[last.env] # {}
    /\ now - registry.last_check_time[last.env] = max_cache_age

\* this step is the start of a get_best_endpoints(e) call
GBECallStep(e) == \E p \in Procs : GBECall(p, e)

\* C8 as stated: with a valid entry for E when the first call starts, the
\* second of two get_best_endpoints(E) calls in immediate succession runs no
\* sweep and returns the map the first returned.
C8_AsStated ==
    [][ \A e \in Environments :
           ( /\ last.kind = "gbe_ret"
             /\ last.env = e
             /\ last.entry0.valid
             /\ GBECallStep(e) )
           => /\ nsweeps' = nsweeps
              /\ last'.kind = "gbe_ret"
              /\ last'.value = last.value ]_vars

\* C8: with a valid entry for E holding at least one reachable endpoint when
\* the first call starts, two get_best_endpoints(E) calls in immediate
\* succession run no sweep and return the same map.
C8_NoSecondSweep ==
    [][ \A e \in Environments :
           ( /\ last.kind = "gbe_ret"
             /\ last.env = e
             /\ last.entry0.reach
             /\ GBECallStep(e) )
           => /\ ~last.swept
              /\ nsweeps' = nsweeps
              /\ last'.kind = "gbe_ret"
              /\ ~last'.swept
              /\ last'.value = last.value ]_vars

\* the second of two successive calls has returned from the cache
C8_Witness ==
    /\ last.kind = "gbe_ret"
    /\ last.entry0.again
    /\ last.entry0.reach
    /\ ~last.swept

\* C9: with a valid entry for E holding at least one reachable endpoint,
\* get_best_endpoints(E) returns exactly {name: target} of the reachable
\* endpoints of that entry and runs no sweep.
C9_ReachableFromCache ==
    [][ \A e \in Environments :
           ( /\ e \in DOMAIN registry.results
             /\ e \in DOMAIN registry.last_check_time
             /\ now - registry.last_check_time[e] <= max_cache_age
             /\ \E n \in DOMAIN registry.results[e] : registry.results[e][n].reachable
             /\ GBECallStep(e) )
           => LET R == registry.results[e]
              IN  /\ last'.kind = "gbe_ret"
                  /\ last'.env = e
                  /\ nsweeps' = nsweeps
                  /\ DOMAIN last'.value = {n \in DOMAIN R : R[n].reachable}
                  /\ \A n \in DOMAIN last'.value : last'.value[n] = R[n].target
      ]_vars

\* lcd reachable and grpc unreachable in the entry: only lcd is returned
C9_Witness ==
    /\ last.kind = "gbe_ret"
    /\ ~last.swept
    /\ last.entry0.reach
    /\ DOMAIN last.value = {"lcd"}
    /\ last.env \in DOMAIN registry.results
    /\ "grpc" \in DOMAIN registry.results[last.env]
    /\ ~registry.results[last.env]["grpc"].reachable

\* C10: when the direct probe fails, validate_endpoint_availability(E, T, ..)
\* returns true iff the sweep it then runs reports the endpoint named T as
\* reachable.
C10_VerdictFromResweep ==
    (last.kind = "validate_ret" /\ ~last.direct_ok) =>
        /\ CompleteSweep(last.env, last.sweep)
        /\ last.value <=>
              (last.type \in DOMAIN last.sweep /\ last.sweep[last.type].reachable)

\* the call answered true although the address it was given did not answer
C10_Witness ==
    /\ last.kind = "validate_ret"
    /\ ~last.direct_ok
    /\ last.value
    /\ \E n \in DOMAIN last.sweep : ~last.sweep[n].reachable

\* C11: a validate_endpoint_availability call whose direct probe fails first
\* removes E's entry, whatever state it was in, and when its sweep completes
\* the registry holds that sweep's result stamped with the current time
\* (cache_info: cached, age 0, valid, no recheck due), whatever the call returns.
C11_ValidateResetsEntry ==
    /\ last.kind = "validate_miss" =>
          /\ last.env \notin DOMAIN registry.results
          /\ last.env \notin DOMAIN registry.last_check_time
    /\ (last.kind = "validate_ret" /\ ~last.direct_ok) =>
          /\ last.env \in DOMAIN registry.results
          /\ registry.results[last.env] = last.sweep
          /\ registry.last_check_time[last.env] = now
          /\ get_cache_info(registry, last.env, now) =
                [cached |-> TRUE, age |-> 0, valid |-> TRUE, should_recheck |-> FALSE]

\* after an earlier sweep and a clock step, a call answered false and left
\* its own sweep's result in the registry with age 0
C11_Witness ==
    /\ last.kind = "validate_ret"
    /\ ~last.direct_ok
    /\ ~last.value
    /\ now > 0
    /\ registry.results[last.env] = last.sweep
    /\ registry.last_check_time[last.env] = now
    /\ \E n \in DOMAIN last.sweep : last.sweep[n].sweep >= 2

\* C12: when the direct probe succeeds, validate_endpoint_availability returns
\* true, runs no sweep and leaves the stored results and last_check_time of
\* every environment as they were before the call, whatever the cached entry
\* says about the endpoint.
C12_DirectSuccessNoEffect ==
    [][ /\ (\E p \in Procs : pc[p] = "idle" /\ pc'[p] = "direct")
              => (registry' = registry /\ nsweeps' = nsweeps)
        /\ (\E p \in Procs : pc[p] = "direct" /\ pc'[p] = "idle")
              => /\ last'.kind = "validate_ret"
                 /\ last'.direct_ok
                 /\ last'.value
                 /\ registry' = registry
                 /\ nsweeps' = nsweeps
      ]_vars

\* the call answered true while the stored entry, still in place, reports
\* the endpoint of that type unreachable
C12_Witness ==
    /\ last.kind = "validate_ret"
    /\ last.direct_ok
    /\ last.value
    /\ last.env \in DOMAIN registry.results
    /\ last.type \in DOMAIN registry.results[last.env]
    /\ ~registry.results[last.env][last.type].reachable

\* C13: when the direct probe step raises, validate_endpoint_availability
\* raises nothing and goes the way of a probe failure: it removes E's entry,
\* runs a fresh sweep and returns true iff the endpoint named T is reachable
\* in that sweep.
C13_RaiseLikeFailure ==
    /\ (last.kind = "validate_miss" /\ last.raised) =>
          /\ last.env \notin DOMAIN registry.results
          /\ \E p \in Procs : op[p] = "validate_exc" /\ pc[p] = "probing"
    /\ (last.kind = "validate_ret" /\ last.raised) =>
          /\ ~last.direct_ok
          /\ last.value \in BOOLEAN
          /\ CompleteSweep(last.env, last.sweep)
          /\ registry.results[last.env] = last.sweep
          /\ last.value <=>
                (last.type \in DOMAIN last.sweep /\ last.sweep[last.type].reachable)

\* the probe step raised and the call still answered true from its sweep
C13_Witness ==
    /\ last.kind = "validate_ret"
    /\ last.raised
    /\ last.value

\* C14: of two sweeps of one environment running concurrently, the one that
\* completes last leaves its result in the registry, stamped with the time of
\* that write, also when it started first; nothing of the result written
\* earlier stays visible.
C14_LastWriteWins ==
    [][ \A p \in Procs :
           (pc[p] = "probing" /\ pc'[p] = "idle") =>
              LET e == call[p].env
              IN  /\ e \in DOMAIN registry'.results
                  /\ registry'.results[e] = local[p]
                  /\ registry'.last_check_time[e] = now'
                  /\ \A n \in DOMAIN registry'.results[e] :
                         registry'.results[e][n].sweep = sweep_id[p]
      ]_vars

\* the sweep started first returned after the sweep started second had
\* completed, and the registry holds the first one's result
C14_Witness ==
    /\ last.kind = "sweep_ret"
    /\ last.sweep = 1
    /\ nsweeps = 2
    /\ \A p \in Procs : pc[p] = "idle"
    /\ ncalls = 0
    /\ registry.results[last.env] = last.value
    /\ \A n \in DOMAIN last.value : last.value[n].sweep = 1

\* C15: for each environment the registry holds no entry or exactly the
\* result of the sweep of that environment that completed last; as long as a caller is free a sweep of E can start,
\* whatever the registry holds; and an entry disappears only through an
\* invalidation or through a read that finds it older than max_cache_age.
C15_EntryIsLastSweep ==
    /\ [](\A e \in Environments :
            /\ e \in DOMAIN registry.results =>
                  /\ e \in DOMAIN written
                  /\ registry.results[e] = written[e].res
                  /\ CompleteSweep(e, registry.results[e])
            /\ (e \in scope.envs /\ ncalls > 0 /\ \E p \in scope.callers : pc[p] = "idle")
                  => ENABLED (\E p \in Procs : SweepCall(p, e)))
    /\ [][ \A e \in Environments :
              (e \in DOMAIN registry.results /\ e \notin DOMAIN registry'.results) =>
                 \/ e \notin DOMAIN written'
                 \/ /\ now - registry.last_check_time[e] > max_cache_age
                    /\ \/ last'.kind = "get" /\ last'.env = e
                       \/ last'.kind = "gbe_ret" /\ last'.env = e
                       \/ \E p \in Procs : op[p] = "none" /\ op'[p] = "gbe"
       ]_vars

\* an expired entry has just been evicted by a read; the sweep that wrote it
\* is still the last completed one
C15_Witness ==
    /\ last.kind = "get"
    /\ last.env \in DOMAIN written
    /\ last.env \notin DOMAIN registry.results
    /\ now - written[last.env].at > max_cache_age
    /\ nsweeps = 2

\* C16 as stated: build_injective_endpoints returns a catalog for every
\* environment string, and for a name that is not a supported environment
\* ("foo") the catalog it returns for "testnet".
C16_AsStated ==
    last.kind = "catalog" =>
        /\ DOMAIN last.value # {}
        /\ LET env == lower(IF last.env = "" THEN "testnet" ELSE last.env)
           IN  env \notin {"testnet", "mainnet"}
                  => last.value = build_injective_endpoints("testnet")

\* C17: get_smart_endpoint(E, T, force_refresh) returns a non-empty address:
\* the one get_best_endpoints(E) gave for T when T is in that map, else the
\* hardcoded default for T, else (T in neither map) the lcd endpoint of E.
C17_SmartEndpointChain ==
    last.kind = "smart_ret" =>
        LET best == last.best
            defaults == get_default_endpoints(last.env)
        IN  /\ last.value # ""
            /\ DOMAIN best # {}
            /\ \/ best = defaults
               \/ /\ last.env \in DOMAIN registry.results
                  /\ best = available_endpoints(registry.results[last.env])
            /\ last.type \in DOMAIN best => last.value = best[last.type]
            /\ (last.type \notin DOMAIN best /\ last.type \in DOMAIN defaults)
                  => last.value = defaults[last.type]
            /\ (last.type \notin DOMAIN best /\ last.type \notin DOMAIN defaults)
                  => last.value = build_injective_endpoints(last.env)["lcd"].target

\* the sweep found only lcd reachable and the call, asked for grpc, answered
\* with the hardcoded default for grpc
C17_Witness ==
    /\ last.kind = "smart_ret"
    /\ last.type = "grpc"
    /\ DOMAIN last.best = {"lcd"}
    /\ last.value = get_default_endpoints(last.env)["grpc"]

\* C18: refresh_endpoints(E) removes E's entry and then runs
\* get_best_endpoints(E): with no writer in between it starts a new sweep
\* whatever the registry held, and what it returns comes from that sweep (or
\* is the default map), never from the entry stored before the call.
C18_RefreshAlwaysSweeps ==
    /\ [](last.kind = "refresh_ret" =>
             /\ last.swept
             /\ last.error => last.value = get_default_endpoints(last.env)
             /\ ~last.error =>
                   /\ CompleteSweep(last.env, last.sweep)
                   /\ last.value = select_after_sweep(last.env, last.sweep))
    /\ [][ \A p \in Procs :
              /\ (op[p] = "none" /\ op'[p] = "refresh") =>
                    /\ call'[p].env \notin DOMAIN registry'.results
                    /\ nsweeps' = nsweeps + 1
                    /\ sweep_id'[p] = nsweeps'
              /\ (op[p] = "refresh" /\ pc'[p] = "idle") =>
                    /\ last'.kind = "refresh_ret"
                    /\ ~last'.error =>
                          /\ last'.sweep = local[p]
                          /\ \A n \in DOMAIN local[p] : local[p][n].sweep = sweep_id[p]
       ]_vars

\* a refresh that found a valid entry with a reachable endpoint has returned
\* from a sweep of its own
C18_Witness ==
    /\ last.kind = "refresh_ret"
    /\ last.entry0.reach
    /\ last.swept
    /\ ~last.error
    /\ \A n \in DOMAIN last.sweep : last.sweep[n].sweep >= 2

\* C19 as stated: in every registry state cache_info(E) returns a record of
\* the four fields cached, age, valid and should_recheck: cached iff an entry
\* is stored, age = now - last_check_time (null when not cached), valid as
\* is_valid(E) and should_recheck as should_recheck(E).
C19_AsStated ==
    last.kind = "cache_info" =>
        LET v == last.value
            e == last.env
            has == e \in DOMAIN registry.results
        IN  /\ DOMAIN v = {"cached", "age", "valid", "should_recheck"}
            /\ v.cached <=> has
            /\ v.age = IF has THEN now - registry.last_check_time[e] ELSE "None"
            /\ v.valid = is_cache_valid(registry, e, now)
            /\ v.should_recheck = should_recheck(registry, e, now)

\* C20: every completed sweep of E, whatever its probes returned, writes its
\* full result into the registry for E with the time of completion: right
\* afterwards get(E) is the map the sweep returned and cache_info(E) is
\* {cached: true, age: 0, valid: true, should_recheck: false}.
C20_SweepWritesResult ==
    /\ [](DOMAIN SweepOf(last) # {} =>
             /\ CompleteSweep(last.env, SweepOf(last))
             /\ last.env \in DOMAIN registry.results
             /\ registry.results[last.env] = SweepOf(last)
             /\ registry.last_check_time[last.env] = now
             /\ get_results(registry, last.env, now).value = SweepOf(last)
             /\ get_cache_info(registry, last.env, now) =
                   [cached |-> TRUE, age |-> 0, valid |-> TRUE, should_recheck |-> FALSE])
    /\ [][ (DOMAIN SweepOf(last) # {} /\ last'.kind = "get" /\ last'.env = last.env)
              => last'.value = SweepOf(last) ]_vars

\* a sweep whose probes all failed has just returned, over an older entry,
\* and its result is the registry's entry with age 0
C20_Witness ==
    /\ last.kind = "sweep_ret"
    /\ \A n \in DOMAIN last.value : ~last.value[n].reachable
    /\ now > 0
    /\ last.sweep >= 2
    /\ registry.results[last.env] = last.value
    /\ registry.last_check_time[last.env] = now

\* the four read methods find nothing stored for e
NothingCached(e) ==
    /\ get_results(registry, e, now).value = EmptyMap
    /\ ~is_cache_valid(registry, e, now)
    /\ should_recheck(registry, e, now)
    /\ ~get_cache_info(registry, e, now).cached

\* C21: after clear_environment_cache(E), and until the next set_results(E, .),
\* get_results(E) is empty, is_cache_valid(E) is false, should_recheck(E) is
\* true and get_cache_info(E)["cached"] is false; clear_environment_cache on an
\* environment without entry leaves the registry as it was; clear_cache has
\* the effect for every environment.
C21_InvalidateEmpties ==
    /\ [](\A e \in Environments : e \notin DOMAIN written => NothingCached(e))
    /\ [](last.kind = "invalidate" => NothingCached(last.env))
    /\ [](last.kind = "invalidate_all" => \A e \in Environments : NothingCached(e))
    /\ [][last'.kind = "invalidate" /\ ~last'.had => registry' = registry]_vars

\* an entry was stored and invalidated, time has passed, the other
\* environment still has its entry
C21_Witness ==
    /\ last.kind = "invalidate"
    /\ last.had
    /\ now > 0
    /\ \E e \in Environments \ {last.env} : e \in DOMAIN registry.results

\* the step leaves the two entries of every environment but e as they were
OthersUntouched(e) ==
    \A o \in Environments \ {e} :
        /\ (o \in DOMAIN registry.results) = (o \in DOMAIN registry'.results)
        /\ o \in DOMAIN registry.results => registry'.results[o] = registry.results[o]
        /\ (o \in DOMAIN registry.last_check_time) = (o \in DOMAIN registry'.last_check_time)
        /\ o \in DOMAIN registry.last_check_time =>
               registry'.last_check_time[o] = registry.last_check_time[o]

\* the step is an operation on environment e: a registry method called with
\* e, a call that returns at once for e, or a step of a caller working on e
StepOn(e) ==
    \/ "env" \in DOMAIN last' /\ last'.env = e
    \/ \E p \in Procs :
          /\ call[p].env = e \/ call'[p].env = e
          /\ <<pc[p], op[p], call[p], local[p], pending[p]>> #
                <<pc'[p], op'[p], call'[p], local'[p], pending'[p]>>

\* C22: set_results(E, .), clear_environment_cache(E), the eviction inside
\* get_results(E) and every step of a sweep, a get_best_endpoints call or a
\* validation of E leave the stored results and the last_check_time of every
\* other environment as they were.
\* (written as the contrapositive: a step that changes the registry in an
\* entry of another environment is no operation on E)
C22_OtherEnvironmentsKept ==
    [][registry' # registry =>
          \A e \in Environments : ~OthersUntouched(e) => ~StepOn(e)]_vars

\* a sweep of one environment has just stored its result next to the older
\* entry of the other environment
C22_Witness ==
    /\ last.kind = "sweep_ret"
    /\ registry.last_check_time[last.env] = now
    /\ \E o \in Environments \ {last.env} :
          /\ o \in DOMAIN registry.results
          /\ registry.last_check_time[o] < now

\* C23: a probe that fails by name resolution, refused connection, timeout or
\* malformed address returns (False, latency, error string) with the latency
\* a number; a probe that succeeds returns (True, latency, None).
C23_AsStated ==
    last.kind = "probe_ret" =>
        \A n \in DOMAIN last.tasks :
            LET task == last.tasks[n]
            IN  /\ task.latency \in 0..(now - task.start)
                /\ task.ok => task.error = "None"
                /\ ~task.ok /\ task.status = 0 => task.error \notin {"None", ""}

\* C24: a response is reported reachable exactly when its status is below
\* 500 or one of 404, 501 and 405, whatever the url, and without error string.
C24_AsStated ==
    last.kind = "probe_ret" =>
        \A n \in DOMAIN last.tasks :
            LET task == last.tasks[n]
            IN  task.status # 0 =>
                   /\ task.ok = (task.status < 500 \/ task.status \in {404, 501, 405})
                   /\ task.error = "None"

\* C25: every probe returns within its timeout, and a sweep within the
\* largest timeout of its probes.
C25_AsStated ==
    last.kind = "probe_ret" =>
        /\ \A n \in DOMAIN last.tasks : last.tasks[n].latency <= ProbeTimeout
        /\ last.mode = "sweep" => last.elapsed <= ProbeTimeout

\* C26: no sweep is still running, or still to write the registry, after the
\* get_best_endpoints call that started it has returned.
C26_AsStated ==
    \A p \in Procs : op[p] = "orphan" => pc[p] # "probing"

\* C27: every call of refresh_endpoints and get_smart_endpoint (each ends in
\* get_best_endpoints) ends by returning a value; when its sweep timed out,
\* reported an error or raised, get_best_endpoints hands back the hardcoded
\* default map of the environment.
C27_FailureGivesDefaults ==
    /\ [](last.kind = "refresh_ret" =>
             /\ DOMAIN last.value # {}
             /\ last.error => last.value = get_default_endpoints(last.env))
    /\ [](last.kind = "smart_ret" =>
             /\ DOMAIN last.best # {}
             /\ last.error =>
                   /\ last.best = get_default_endpoints(last.env)
                   /\ last.value \in {get_default_endpoints(last.env).lcd,
                                      get_default_endpoints(last.env).grpc})
    /\ [][\A p \in Procs :
              op[p] \in {"refresh", "smart"} /\ op'[p] \notin {"refresh", "smart"}
                 => last'.kind \in {"refresh_ret", "smart_ret"}]_vars

\* get_smart_endpoint has answered from the defaults after its sweep failed
\* with an entry of the environment nowhere in the registry
C27_Witness ==
    /\ last.kind = "smart_ret"
    /\ last.error
    /\ last.type = "grpc"
    /\ last.env \notin DOMAIN registry.results
    /\ \A p \in Procs : op[p] = "none"

\* C28: get_best_endpoints serves the stored entry without a sweep only when
\* the entry is younger than check_interval; a soft-stale entry
\* (check_interval <= age <= max_cache_age) makes the call sweep.
C28_AsStated ==
    last.kind = "gbe_ret" /\ ~last.swept =>
        now - registry.last_check_time[last.env] < check_interval

\* the statuses of the sweep the last call ran: those it was handed, or those
\* the sweep still running has collected
SweepOfCall ==
    IF \E p \in Procs : op[p] = "orphan" /\ call[p].env = last.env
    THEN local[CHOOSE p \in Procs : op[p] = "orphan" /\ call[p].env = last.env]
    ELSE last.sweep

\* C29: a get_best_endpoints(E) call that finds a valid entry of E without
\* reachable endpoint runs a sweep and returns the reachable endpoints of
\* that sweep, or the defaults when the sweep has none.
C29_AsStated ==
    last.kind = "gbe_ret" /\ last.entry0.valid /\ ~last.entry0.reach =>
        /\ last.swept
        /\ last.value = IF \E n \in DOMAIN SweepOfCall : SweepOfCall[n].reachable
                        THEN available_endpoints(SweepOfCall)
                        ELSE get_default_endpoints(last.env)

\* the operations of a caller that has not returned yet
Running == {"refresh", "smart", "smart_refresh", "validate", "validate_exc"}

\* C30: every call of get_best_endpoints (under refresh_endpoints),
\* get_smart_endpoint and validate_endpoint_availability returns in the end,
\* provided every probe returns.
C30_CallsReturn ==
    \A p \in Procs : (op[p] \in Running) ~> (op[p] \notin Running)

\* a validation whose direct probe failed has returned the verdict of its
\* sweep and no caller is active
C30_Witness ==
    /\ last.kind = "validate_ret"
    /\ ~last.direct_ok
    /\ DOMAIN last.sweep = {"lcd", "grpc"}
    /\ \A p \in Procs : op[p] = "none" /\ pc[p] = "idle"

\* C34 as stated: an environment whose entry is not valid is flagged for a
\* recheck, is_cache_valid(E) = false implies should_recheck(E) = true.
C34_AsStated ==
    \A e \in Environments :
        ~is_cache_valid(registry, e, now) => should_recheck(registry, e, now)

\* C36 as stated: the environments with a stored result are the
\* environments with a stored last_check_time.
C36_AsStated ==
    DOMAIN registry.results = DOMAIN registry.last_check_time

\* C31 as stated: once validate_endpoint_availability or refresh_endpoints
\* has cleared the entry of E, no read returns the result of a sweep of E
\* that was already running at that moment.
C31_AsStated ==
    (last.kind = "get" /\ last.env \in DOMAIN cut) =>
        \A n \in DOMAIN last.value : last.value[n].sweep \notin cut[last.env]

\* a validation or a refresh clears the entry of e in this step
Clears(e) ==
    \E p \in Procs :
        /\ call'[p].env = e
        /\ \/ pc[p] = "direct" /\ pc'[p] = "probing"
           \/ op[p] = "none" /\ op'[p] = "refresh"

\* C31: the step in which validate_endpoint_availability or refresh_endpoints
\* clears the entry of E leaves no result of E behind, and every later read
\* returns nothing or the result a sweep stored after that step; the result
\* of a sweep that was running during the step is among these.
C31_ReadsAfterInvalidation ==
    /\ [](last.kind = "get" =>
             \/ last.value = EmptyMap
             \/ /\ last.env \in DOMAIN written
                /\ last.value = written[last.env].res)
    /\ [][\A e \in scope.envs :
              Clears(e) => (e \notin DOMAIN registry'.results /\ e \notin DOMAIN written')]_vars

\* a read returns the result of a sweep that was running when the entry was
\* cleared
C31_Witness ==
    /\ last.kind = "get"
    /\ last.env \in DOMAIN cut
    /\ DOMAIN last.value # {}
    /\ \A n \in DOMAIN last.value : last.value[n].sweep \in cut[last.env]

\* C33 as stated: a get_smart_endpoint call with force_refresh runs one sweep
\* when the sweep of its refresh finds a reachable endpoint and two when it
\* finds none; a call without force_refresh runs at most one sweep.
C33_AsStated ==
    last.kind = "smart_ret" =>
        IF last.force
        THEN last.sweeps = (IF last.found THEN 1 ELSE 2)
        ELSE last.sweeps <= 1

\* a request to /network/connectivity for e is taken up in this step
ConnTaken(e) ==
    \/ last'.kind = "conn_ret" /\ last'.env = e /\ ~last'.swept
    \/ \E p \in Procs : op[p] = "none" /\ op'[p] = "conn" /\ call'[p].env = e

\* C35: connectivity_endpoint runs a sweep of env iff should_recheck(env) is
\* true or the cached result it read is empty; without a sweep it leaves
\* last_check_time as it was and returns the cached result as "fresh"; with
\* a sweep the cache_info and should_recheck of its response are the values
\* from before the sweep, not those of the entry the sweep has just stored.
C35_HandlerSweepsWhenDue ==
    /\ [][\A e \in scope.envs :
              ConnTaken(e) =>
                 LET g == get_results(registry, e, now)
                     due == should_recheck(g.reg, e, now) \/ DOMAIN g.value = {}
                 IN  /\ due <=> (nsweeps' = nsweeps + 1)
                     /\ ~due =>
                           /\ nsweeps' = nsweeps
                           /\ registry'.last_check_time = registry.last_check_time
                           /\ last'.fresh = last'.cached
                           /\ last'.cached =
                                 [k \in DOMAIN registry.results[e] |->
                                     to_dict(registry.results[e][k])]
                           /\ last'.cache_info = get_cache_info(registry, e, now)
                           /\ ~last'.should_recheck]_vars
    /\ [][\A p \in Procs :
              (op[p] = "conn" /\ op'[p] = "none") =>
                 /\ last'.kind = "conn_ret" /\ last'.swept
                 /\ last'.should_recheck \/ DOMAIN last'.cached = {}
                 /\ last'.cache_info = call[p].held.cache_info
                 /\ last'.should_recheck = call[p].held.should_recheck
                 /\ ~should_recheck(registry', last'.env, now')
                 /\ get_cache_info(registry', last'.env, now').cached]_vars

\* a request found a valid entry due for a recheck: it ran a sweep, returned
\* the old result as "cached" and the new one as "fresh", with the
\* should_recheck and the age from before the sweep
C35_Witness ==
    /\ last.kind = "conn_ret"
    /\ last.swept
    /\ DOMAIN last.cached # {}
    /\ last.should_recheck
    /\ last.cache_info.cached
    /\ last.cache_info.age >= check_interval
    /\ ~should_recheck(registry, last.env, now)
    /\ last.fresh # last.cached

\* C32 as stated: an address get_best_available_endpoint returns after a
\* successful validation answered its own direct probe during the call, and
\* the call makes at most two validations and one forced refresh.
C32_AsStated ==
    last.kind = "best_ret" =>
        /\ last.path # "default" => last.direct_ok
        /\ last.validates <= 2
        /\ last.refreshes <= 1

\* C32: an address get_best_available_endpoint returns after a successful
\* validation answered its own direct probe during the call, or the sweep
\* run by that validation found the endpoint of the requested type
\* reachable; the call makes at most two validations and one forced
\* refresh before it returns the static default.
C32_ValidatedOrResweptAddress ==
    last.kind = "best_ret" =>
        /\ last.path # "default" =>
              \/ last.direct_ok
              \/ /\ last.type \in DOMAIN last.sweep
                 /\ last.sweep[last.type].reachable
        /\ last.validates <= 2
        /\ last.refreshes <= 1
        /\ last.path = "validated" => (last.validates = 1 /\ last.refreshes = 0)
        /\ last.path = "refreshed" => (last.validates = 2 /\ last.refreshes = 1)

\* the refreshed address is returned although its direct probe failed: the
\* sweep of the second validation found the lcd endpoint reachable
C32_Witness ==
    /\ last.kind = "best_ret"
    /\ last.path = "refreshed"
    /\ ~last.direct_ok
    /\ last.type = "lcd"
    /\ last.sweep["lcd"].reachable
    /\ last.validates = 2
    /\ last.refreshes = 1

====
